---- MODULE Spec2Model ----
(***************************************************************************)
(* Model of the admission-control and retry layer of the pull-request      *)
(* reviewer: src/src/rate_limiter.py (BedrockRateLimiter, the global       *)
(* limiter functions) and the retry loop of BedrockHandler.invoke_model    *)
(* in src/src/bedrock_handler.py.                                          *)
(*                                                                         *)
(* Time is counted in whole seconds.  The limiter model covers rates of    *)
(* 1..60 requests per minute and whole-second timeouts; for these the      *)
(* polling slice of acquire (line 94) is exactly one second.               *)
(***************************************************************************)
EXTENDS Integers, Sequences, FiniteSets, TLC

(***************************************************************************)
(* Bounds of the model and constants of the program.                       *)
(***************************************************************************)
MaxTime == 3          \* the clock stops advancing here
MaxCap == 2           \* largest burst_capacity of the concurrent model
MaxTimeout == 1       \* largest finite timeout passed to acquire
MaxObjects == 2       \* object ids the allocator of __new__ can hand out
SeqMaxTime == 7       \* the clock of the back-to-back scenario stops here
SeqMaxCap == 5        \* largest burst_capacity of the back-to-back scenario

SecondsPerMinute == 60   \* "/ 60.0" of _refill_tokens and acquire
MaxSlice == 1            \* "Cap at 1 second intervals" of acquire
NoTimeout == -1          \* timeout=None
NoObject == 0            \* None, as an object reference
DefaultRate == 50        \* default requests_per_minute
DefaultBurst == 10       \* default burst_capacity

Threads == {"t1", "t2"}
Rates == {30, 60}
SeqRates == {20, 40, 60}
Caps == 0..MaxCap
Timeouts == {NoTimeout} \cup (0..MaxTimeout)
ObjIds == 1..MaxObjects

Min(a, b) == IF a <= b THEN a ELSE b

\* No exception.
NoException == [exc |-> "none", kind |-> "none", attempts |-> 0]

VARIABLES
    now,                  \* time.time()
    instance,             \* BedrockRateLimiter._instance
    global_rate_limiter,  \* module global _global_rate_limiter
    limiter,              \* heap: object id -> the fields of that limiter
    pc,                   \* per thread: where it stands in its current call
    self,                 \* per thread: the limiter it holds a reference to
    start_time,           \* per thread: local start_time of acquire
    timeout,              \* per thread: argument of acquire
    wake_at,              \* per thread: end of the current time.sleep
    ret,                  \* per thread: value the last call returned
    excess,               \* history: object id -> 60 * (the largest surplus of
                          \*   True returns over the rate line, among the time
                          \*   windows that end now)
    handles,              \* history: references get_global_rate_limiter returned
    recording,            \* history: TRUE when the waits below are recorded
    waits,                \* history: for each acquire that returned True, in
                          \*   order, the seconds between its call and its return
    max_retries,          \* invoke_model: argument
    initial_backoff_seconds,  \* invoke_model: argument
    attempt,              \* invoke_model: local attempt
    ipc,                  \* invoke_model: where the call stands
    outcome,              \* invoke_model: "running", "returned" or "raised"
    result,               \* invoke_model: the text it returned
    raised,               \* invoke_model: the exception it raised
    last_code,            \* history: error code of the latest remote failure
    remote_calls,         \* history: number of client.invoke_model calls
    backoffs,             \* history: the sleeps between attempts, in order
    all_retryable,        \* history: every attempt so far ended in a remote
                          \*   failure with a retryable error code
    last_response,        \* history: the text of the latest decoded response
    response_form,        \* history: the form of the latest response body
    budget,               \* the fields of the TokenBudgetManager
    disable_quota_discovery,  \* environment: DISABLE_QUOTA_DISCOVERY is "true"
    frame,                \* per thread: its call on the manager and its locals
    bret,                 \* what the latest call on the manager returned
    recorded,             \* history: model id -> every entry record_usage
                          \*   appended, in order
    discovery,            \* history: the latest _discover_quotas and the times
                          \*   of the last two list_service_quotas round trips
    args,                 \* invoke_model: model_id, prompt, max_tokens and
                          \*   analysis_type as passed by the caller
    max_tokens,           \* invoke_model: local max_tokens
    sizer_calls,          \* history: calls of calculate_dynamic_max_tokens
    sent,                 \* history: the max_tokens of each request body sent
    calc,                 \* TokenCalculator: the arguments and the results of
                          \*   the latest calls
    batch,                \* main: the locals of the individual file analysis
    batch_log,            \* history: what each iteration of the file loop did
    ctor,                 \* BedrockRateLimiter(...): where each thread stands
                          \*   in __new__ and __init__, and its arguments
    review,               \* main: the locals of the handling of the last
                          \*   bot review, and the calls it made
    claude_quota          \* main: the manual Claude quota it applied (0: none)

limVars == <<now, instance, global_rate_limiter, limiter, pc, self, start_time,
             timeout, wake_at, ret, excess, handles, recording, waits>>

ivkVars == <<max_retries, initial_backoff_seconds, attempt, ipc, outcome,
             result, raised, last_code, remote_calls, backoffs,
             all_retryable, last_response, response_form, args, max_tokens,
             sizer_calls, sent>>

budVars == <<budget, disable_quota_discovery, frame, bret, recorded,
             discovery>>

auxVars == <<calc, batch, batch_log, ctor, review, claude_quota>>

\* The variables of the other components.
otherVars == <<recording, ivkVars, budVars, auxVars>>

(***************************************************************************)
(* BedrockRateLimiter objects.                                             *)
(***************************************************************************)
\* A heap slot nothing was allocated in; an object __new__ has just made is
\* this with allocated = TRUE: none of its attributes is set yet.
Blank ==
    [allocated |-> FALSE, initialized |-> FALSE, requests_per_minute |-> 0, burst_capacity |-> 0,
     tokens |-> 0, last_refill_time |-> 0, token_lock |-> "free"]

FreeIds(heap) == {o \in ObjIds : ~heap[o].allocated}

LowestFree(heap) == CHOOSE o \in FreeIds(heap) : \A p \in FreeIds(heap) : o <= p

\* A __new__ without the singleton test: every construction makes an object.
NewObjectAlways(inst, heap) ==
    IF FreeIds(heap) # {} THEN LowestFree(heap) ELSE inst

\* __new__: the object a construction returns (double-checked singleton).
NewObject(inst, heap) ==
    IF inst = NoObject THEN LowestFree(heap) ELSE inst

\* __init__ on object record m with the given arguments at time t.
InitObject(m, r, c, t) ==
    IF m.initialized
    THEN m
    ELSE [m EXCEPT !.initialized = TRUE, !.requests_per_minute = r,
                   !.burst_capacity = c, !.tokens = c,
                   !.last_refill_time = t, !.token_lock = "free"]

\* _refill_tokens without the min against burst_capacity.
RefillNoClamp(m, t) ==
    LET scaled == (t - m.last_refill_time) * m.requests_per_minute
    IN  IF scaled >= SecondsPerMinute
        THEN [m EXCEPT !.tokens = m.tokens + (scaled \div SecondsPerMinute),
                       !.last_refill_time = t]
        ELSE m

\* _refill_tokens that asks for more than one token's worth of time.
RefillStrict(m, t) ==
    LET scaled == (t - m.last_refill_time) * m.requests_per_minute
    IN  IF scaled > SecondsPerMinute
        THEN [m EXCEPT !.tokens = Min(m.burst_capacity,
                                      m.tokens + (scaled \div SecondsPerMinute)),
                       !.last_refill_time = t]
        ELSE m

\* _refill_tokens that adds nothing.
RefillNothing(m, t) == m

\* _refill_tokens on object record m at time t.
RefillTokens(m, t) ==
    LET time_elapsed == t - m.last_refill_time
        scaled == time_elapsed * m.requests_per_minute
    IN  IF scaled >= SecondsPerMinute
        THEN [m EXCEPT !.tokens = Min(m.burst_capacity,
                                      m.tokens + (scaled \div SecondsPerMinute)),
                       !.last_refill_time = t]
        ELSE m

\* Line 82: seconds until the next token, rounded down to whole seconds
\* (at least one second for the rates of the model).
TimeUntilNextToken(m) == SecondsPerMinute \div m.requests_per_minute

\* The timeout test with > for >=.
ExpiredLate(th) == now - start_time[th] > timeout[th]

\* Line 86: the timeout of thread th has run out.
Expired(th) == now - start_time[th] >= timeout[th]

\* The sleep of acquire without its two caps.
WaitTimeUncapped(th) == TimeUntilNextToken(limiter[self[th]])

\* Lines 91 and 94: the length of the next sleep of thread th.
WaitTime(th) ==
    LET m == limiter[self[th]]
        until_next == IF timeout[th] = NoTimeout
                      THEN TimeUntilNextToken(m)
                      ELSE Min(TimeUntilNextToken(m),
                               timeout[th] - (now - start_time[th]))
    IN  Min(until_next, MaxSlice)

\* An acquire that does not wait for the lock.
LockIgnored(o) == TRUE

\* The end of "with self._token_lock": the thread releases the lock it took,
\* which is the lock of the object unless that one was replaced meanwhile.
Released(lock, th) == IF lock = th THEN "free" ELSE lock

\* "with self._token_lock": the lock of object o can be taken.
LockFree(o) == limiter[o].token_lock = "free"

(***************************************************************************)
(* Construction and the module-level functions.                            *)
(***************************************************************************)
\* BedrockRateLimiter(r, c): __new__ then __init__; the reference it returns
\* and the heap it leaves.
Constructed(r, c) ==
    LET o == NewObject(instance, limiter)
    IN  [obj |-> o,
         heap |-> [limiter EXCEPT
                     ![o] = InitObject([@ EXCEPT !.allocated = TRUE], r, c, now)]]

\* A thread calls BedrockRateLimiter(r, c) directly.
Construct(th, r, c) ==
    /\ pc[th] = "idle"
    /\ LET made == Constructed(r, c)
       IN  /\ instance' = made.obj
           /\ limiter' = made.heap
           /\ self' = [self EXCEPT ![th] = made.obj]
    /\ UNCHANGED <<now, global_rate_limiter, pc, start_time, timeout, wake_at,
                   ret, excess, handles>>
    /\ UNCHANGED <<waits, otherVars>>

\* get_global_rate_limiter(), called by a thread.
GetGlobalLimiter(th) ==
    /\ pc[th] = "idle"
    /\ IF global_rate_limiter = NoObject
       THEN LET made == Constructed(DefaultRate, DefaultBurst)
            IN  /\ instance' = made.obj
                /\ limiter' = made.heap
                /\ global_rate_limiter' = made.obj
            ELSE UNCHANGED <<instance, limiter, global_rate_limiter>>
    /\ self' = [self EXCEPT ![th] = global_rate_limiter']
    /\ handles' = handles \cup {global_rate_limiter'}
    /\ UNCHANGED <<now, pc, start_time, timeout, wake_at, ret, excess, waits>>

\* A thread calls get_global_rate_limiter().
GetGlobal(th) ==
    /\ GetGlobalLimiter(th)
    /\ UNCHANGED otherVars

\* configure_global_rate_limiter(r, c).
Configure(th, r, c) ==
    /\ pc[th] = "idle"
    /\ LET made == Constructed(r, c)
       IN  /\ instance' = made.obj
           /\ limiter' = made.heap
           /\ global_rate_limiter' = made.obj
           /\ self' = [self EXCEPT ![th] = made.obj]
    /\ UNCHANGED <<now, pc, start_time, timeout, wake_at, ret, excess, handles>>
    /\ UNCHANGED <<waits, otherVars>>

(***************************************************************************)
(* acquire, one step per group of lines that runs without a reading of the *)
(* clock or of shared state in between.                                    *)
(***************************************************************************)
\* The locals of acquire are gone once it has returned.
Forget(th) ==
    /\ start_time' = [start_time EXCEPT ![th] = 0]
    /\ timeout' = [timeout EXCEPT ![th] = NoTimeout]

\* Line 70: acquire(timeout=tmo) is entered on the limiter the thread holds.
EnterAcquire(th, tmo) ==
    /\ pc[th] = "idle"
    /\ self[th] # NoObject
    /\ pc' = [pc EXCEPT ![th] = "lock"]
    /\ start_time' = [start_time EXCEPT ![th] = now]
    /\ timeout' = [timeout EXCEPT ![th] = tmo]
    /\ ret' = [ret EXCEPT ![th] = "none"]
    /\ UNCHANGED <<now, instance, global_rate_limiter, limiter, self, wake_at,
                   excess, handles, waits>>

\* A thread calls acquire(timeout=tmo).
AcquireCall(th, tmo) ==
    /\ EnterAcquire(th, tmo)
    /\ UNCHANGED otherVars

\* Line 73: the thread enters "with self._token_lock".
AcquireLock(th) ==
    /\ pc[th] = "lock"
    /\ LockFree(self[th])
    /\ limiter' = [limiter EXCEPT ![self[th]].token_lock = th]
    /\ pc' = [pc EXCEPT ![th] = "refill"]
    /\ UNCHANGED <<now, instance, global_rate_limiter, self, start_time, timeout,
                   wake_at, ret, excess, handles>>
    /\ UNCHANGED <<waits, otherVars>>

\* Line 74: self._refill_tokens().
Refill(th) ==
    /\ pc[th] = "refill"
    /\ limiter' = [limiter EXCEPT ![self[th]] = RefillTokens(@, now)]
    /\ pc' = [pc EXCEPT ![th] = "test"]
    /\ UNCHANGED <<now, instance, global_rate_limiter, self, start_time, timeout,
                   wake_at, ret, excess, handles>>
    /\ UNCHANGED <<waits, otherVars>>

\* Line 76: if self.tokens >= 1.
TestTokens(th) ==
    /\ pc[th] = "test"
    /\ pc' = [pc EXCEPT ![th] =
                IF limiter[self[th]].tokens >= 1 THEN "take" ELSE "deadline"]
    /\ UNCHANGED <<now, instance, global_rate_limiter, limiter, self, start_time,
                   timeout, wake_at, ret, excess, handles>>
    /\ UNCHANGED <<waits, otherVars>>

\* Lines 77-79: self.tokens -= 1; return True (the lock is released).
TakeToken(th) ==
    /\ pc[th] = "take"
    /\ LET o == self[th]
       IN  /\ limiter' = [limiter EXCEPT ![o].tokens = @ - 1,
                                         ![o].token_lock = Released(@, th)]
           /\ excess' = [excess EXCEPT ![o] = @ + SecondsPerMinute]
    /\ pc' = [pc EXCEPT ![th] = "idle"]
    /\ ret' = [ret EXCEPT ![th] = "True"]
    /\ Forget(th)
    /\ UNCHANGED <<now, instance, global_rate_limiter, self, wake_at, handles>>
    /\ waits' = IF recording THEN Append(waits, now - start_time[th]) ELSE waits
    /\ UNCHANGED otherVars

\* Lines 82-96: no token.  With a timeout that has run out: return False.
\* Otherwise leave the lock and sleep for wait_time.
CheckTimeout(th) ==
    /\ pc[th] = "deadline"
    /\ limiter' = [limiter EXCEPT ![self[th]].token_lock = Released(@, th)]
    /\ IF timeout[th] # NoTimeout /\ Expired(th)
       THEN /\ pc' = [pc EXCEPT ![th] = "idle"]
            /\ ret' = [ret EXCEPT ![th] = "False"]
            /\ Forget(th)
            /\ UNCHANGED wake_at
       ELSE /\ pc' = [pc EXCEPT ![th] = "sleep"]
            /\ wake_at' = [wake_at EXCEPT ![th] = now + WaitTime(th)]
            /\ UNCHANGED <<ret, start_time, timeout>>
    /\ UNCHANGED <<now, instance, global_rate_limiter, self, excess, handles>>
    /\ UNCHANGED <<waits, otherVars>>

\* Line 96 returns: time.sleep(wait_time) is over, the loop starts again.
Wake(th) ==
    /\ pc[th] = "sleep"
    /\ now >= wake_at[th]
    /\ pc' = [pc EXCEPT ![th] = "lock"]
    /\ wake_at' = [wake_at EXCEPT ![th] = 0]
    /\ UNCHANGED <<now, instance, global_rate_limiter, limiter, self, start_time,
                   timeout, ret, excess, handles>>
    /\ UNCHANGED <<waits, otherVars>>

\* get_status(): under the lock, refill and return the snapshot.  The body
\* reads the clock once and nothing can run between its lines but the clock.
GetStatus(th) ==
    /\ pc[th] = "idle"
    /\ self[th] # NoObject
    /\ LockFree(self[th])
    /\ limiter' = [limiter EXCEPT ![self[th]] = RefillTokens(@, now)]
    /\ UNCHANGED <<now, instance, global_rate_limiter, pc, self, start_time,
                   timeout, wake_at, ret, excess, handles>>
    /\ UNCHANGED <<waits, otherVars>>

\* d seconds pass: the clock, and the history of the rate line.
AdvanceBy(d) ==
    /\ now' = now + d
    /\ excess' = [o \in ObjIds |->
                    IF excess[o] > d * limiter[o].requests_per_minute
                    THEN excess[o] - d * limiter[o].requests_per_minute ELSE 0]
    /\ UNCHANGED <<instance, global_rate_limiter, limiter, pc, self, start_time,
                   timeout, wake_at, ret, handles, waits>>

\* One second passes and nothing else happens.
Advance ==
    /\ AdvanceBy(1)
    /\ UNCHANGED otherVars

\* The clock advances by one second.  The body of "with self._token_lock"
\* makes no blocking call: at the resolution of the clock it takes no time,
\* so the clock advances only while no thread is inside it.
Tick ==
    /\ now < MaxTime
    /\ \A o \in ObjIds : limiter[o].token_lock = "free"
    /\ Advance

(***************************************************************************)
(* The limiter under concurrent callers.  The first construction has       *)
(* happened, BedrockRateLimiter(r, c) at time 0, and every thread holds the *)
(* reference it returned.                                                  *)
(***************************************************************************)
\* The state after BedrockRateLimiter(r, c) at time 0, for r in rates and c
\* in caps.
Constructed0(rates, caps) ==
    /\ now = 0
    /\ instance = 1
    /\ global_rate_limiter = NoObject
    /\ \E r \in rates, c \in caps :
          limiter = [o \in ObjIds |->
                       IF o = 1
                       THEN InitObject([Blank EXCEPT !.allocated = TRUE], r, c, 0)
                       ELSE Blank]
    /\ pc = [th \in Threads |-> "idle"]
    /\ self = [th \in Threads |-> instance]
    /\ start_time = [th \in Threads |-> 0]
    /\ timeout = [th \in Threads |-> NoTimeout]
    /\ wake_at = [th \in Threads |-> 0]
    /\ ret = [th \in Threads |-> "none"]
    /\ excess = [o \in ObjIds |-> 0]
    /\ handles = {}
    /\ waits = <<>>

(***************************************************************************)
(* TokenBudgetManager: the state of the manager.  Strings are sequences of *)
(* fragments; dicts are sequences of (key, value) records in insertion     *)
(* order.                                                                  *)
(***************************************************************************)

\* quota_cache_time = None (a clock reading is never 0).
None == 0

\* Line 255: quota_cache_ttl.
QuotaCacheTtl == 300

\* Line 330: cutoff_time = current_time - 60.
UsageWindow == 60

\* The model ids the manager is asked about.
ModelIds == {<<"anthropic.", "claude", "-3", "-sonnet">>,
             <<"us.", "Anthropic.", "Claude", "-3", "-haiku">>,
             <<"amazon.", "titan", "-text">>,
             <<"meta.", "llama", "-3">>}

\* The model ids usage is recorded for.
UsageIds == {<<"anthropic.", "claude", "-3", "-sonnet">>,
             <<"amazon.", "titan", "-text">>}

\* Lines 258-264: fallback_quotas.
InitialFallback ==
    << [key |-> <<"claude", "-3">>, value |-> 10000],
       [key |-> <<"claude", "-4">>, value |-> 8000],
       [key |-> <<"anthropic.", "claude">>, value |-> 15000],
       [key |-> <<"amazon.", "titan">>, value |-> 5000],
       [key |-> <<"default">>, value |-> 5000] >>

\* Lines 252-264: the fields __init__ sets before it calls _discover_quotas.
FreshManager ==
    [constructed |-> TRUE,
     token_usage_log |-> [id \in {} |-> <<>>],
     quota_cache |-> <<>>,
     quota_cache_time |-> None,
     quota_cache_ttl |-> QuotaCacheTtl,
     fallback_quotas |-> InitialFallback]

\* Line 369: _global_token_budget_manager = None.
NoManager == [FreshManager EXCEPT !.constructed = FALSE,
                                  !.fallback_quotas = <<>>,
                                  !.quota_cache_ttl = 0]

\* A thread that is in no call on the manager.
NoFrame == [pc |-> "idle", op |-> "none", model_id |-> <<>>, requested |-> 0,
            current_time |-> 0, kept |-> <<>>, usage |-> 0]

\* Nothing returned yet, or a new call is under way.
NoReturn == [op |-> "none", model_id |-> <<>>, requested |-> 0, value |-> 0,
             allowed |-> FALSE]

\* No discovery yet.
NoDiscovery == [outcome |-> "none", prev_trip |-> None, last_trip |-> None]

\* The manager m with nobody calling it.
BudgetAtRest(m) ==
    /\ budget = m
    /\ disable_quota_discovery = FALSE
    /\ frame = [th \in Threads |-> NoFrame]
    /\ bret = NoReturn
    /\ recorded = [id \in ModelIds |-> <<>>]
    /\ discovery = NoDiscovery

\* max_tokens=None: the caller gave no max_tokens.
NotGiven == -1

\* No arguments: no invoke_model call was made.
NoArgs == [model_id |-> <<>>, prompt |-> <<>>, max_tokens |-> NotGiven,
           analysis_type |-> "none"]

\* No result of calculate_dynamic_max_tokens.
NoSized == [analysis_type |-> "none", value |-> 0]

\* The TokenCalculator was not called.
NoCalc == [content |-> <<>>, window |-> None, input_tokens |-> NotGiven,
           factor |-> 0, last |-> NoSized, previous |-> NoSized]

\* main is not in its individual file analysis.
NoBatch ==
    [pc |-> "none", changed_files |-> <<>>,
     enable_individual_analysis |-> FALSE, heavy_model_id |-> <<>>,
     max_throttling_failures |-> 0, index |-> 0,
     throttling_failure_count |-> 0, individual_file_analyses |-> <<>>,
     slept |-> 0]

\* No thread is in a constructor of the limiter.
NoCtor ==
    [at |-> [th \in Threads |-> "none"],
     requests_per_minute |-> [th \in Threads |-> 0],
     burst_capacity |-> [th \in Threads |-> 0],
     obj |-> [th \in Threads |-> NoObject],
     locks |-> 0]

\* main has not looked at the reviews of the pull request.
NoReview ==
    [pc |-> "none", current_head_sha |-> "none", all_reviews |-> <<>>,
     last_bot_review |-> None, dismissed |-> <<>>, deleted |-> <<>>]

\* main is not at its start-up.
MainAtRest ==
    /\ ctor = NoCtor
    /\ review = NoReview
    /\ claude_quota = 0

AuxAtRest ==
    /\ calc = NoCalc
    /\ batch = NoBatch
    /\ batch_log = <<>>
    /\ MainAtRest

\* No invoke_model call is under way.
NoInvocation ==
    /\ args = NoArgs
    /\ max_tokens = NotGiven
    /\ sizer_calls = 0
    /\ sent = <<>>
    /\ max_retries = 0
    /\ initial_backoff_seconds = 0
    /\ attempt = 0
    /\ ipc = "none"
    /\ outcome = "none"
    /\ result = <<>>
    /\ raised = NoException
    /\ last_code = "none"
    /\ remote_calls = 0
    /\ backoffs = <<>>
    /\ all_retryable = TRUE
    /\ last_response = <<>>
    /\ response_form = "none"

LimInit ==
    /\ Constructed0(Rates, Caps)
    /\ recording = FALSE
    /\ NoInvocation
    /\ AuxAtRest
    /\ BudgetAtRest(NoManager)

LimNext ==
    \/ \E th \in Threads, r \in Rates, c \in Caps : Construct(th, r, c)
    \/ \E th \in Threads : GetGlobal(th)
    \/ \E th \in Threads, r \in Rates, c \in Caps : Configure(th, r, c)
    \/ \E th \in Threads, tmo \in Timeouts : AcquireCall(th, tmo)
    \/ \E th \in Threads : AcquireLock(th)
    \/ \E th \in Threads : Refill(th)
    \/ \E th \in Threads : TestTokens(th)
    \/ \E th \in Threads : TakeToken(th)
    \/ \E th \in Threads : CheckTimeout(th)
    \/ \E th \in Threads : Wake(th)
    \/ \E th \in Threads : GetStatus(th)
    \/ Tick

vars == <<limVars, ivkVars, budVars, auxVars>>

Spec == LimInit /\ [][LimNext]_vars

(***************************************************************************)
(* The waits of acquire under concurrent callers, with time: the lines of  *)
(* acquire take no time at the resolution of the clock, so a second passes *)
(* only while every thread is outside acquire or inside time.sleep, and a  *)
(* sleep ends on time.  Calls are made before MaxTime and the clock goes   *)
(* on for as long as the last of them can need.  Every thread that can    *)
(* take a step takes one, a thread waiting for the lock gets it, and no   *)
(* second holds infinitely many calls.                                     *)
(***************************************************************************)
\* Thread th is outside acquire, or in a time.sleep that is not over.
Resting(th) == pc[th] = "idle" \/ (pc[th] = "sleep" /\ now < wake_at[th])

WaitCall(th, tmo) ==
    /\ now < MaxTime
    /\ AcquireCall(th, tmo)

\* The longest a call made on an empty bucket waits for its token when every
\* other thread is served before it.
SlowestRate == CHOOSE r \in Rates : \A q \in Rates : r <= q
LongestWait == Cardinality(Threads) * (SecondsPerMinute \div SlowestRate)

WaitTick ==
    /\ \A th \in Threads : Resting(th)
    /\ now < MaxTime + LongestWait
    /\ Advance

\* The steps of acquire that follow the call, but for taking the lock.
AcquireStep(th) ==
    \/ Refill(th)
    \/ TestTokens(th)
    \/ TakeToken(th)
    \/ CheckTimeout(th)
    \/ Wake(th)

WaitNext ==
    \/ \E th \in Threads, tmo \in Timeouts : WaitCall(th, tmo)
    \/ \E th \in Threads : AcquireLock(th)
    \/ \E th \in Threads : AcquireStep(th)
    \/ WaitTick

SpecWait ==
    /\ LimInit
    /\ [][WaitNext]_vars
    /\ \A th \in Threads : SF_vars(AcquireLock(th)) /\ WF_vars(AcquireStep(th))
    /\ SF_vars(WaitTick)

(***************************************************************************)
(* One caller issuing acquire() calls back to back on a fresh limiter: the *)
(* clock advances only while the caller sleeps, and a sleep ends on time.  *)
(***************************************************************************)
Caller == "t1"

SeqInit ==
    /\ Constructed0(SeqRates, 0..SeqMaxCap)
    /\ recording = TRUE
    /\ NoInvocation
    /\ AuxAtRest
    /\ BudgetAtRest(NoManager)

SeqTick ==
    /\ pc[Caller] = "sleep"
    /\ now < wake_at[Caller]
    /\ now < SeqMaxTime
    /\ Advance

SeqNext ==
    \/ AcquireCall(Caller, NoTimeout)
    \/ AcquireLock(Caller)
    \/ Refill(Caller)
    \/ TestTokens(Caller)
    \/ TakeToken(Caller)
    \/ CheckTimeout(Caller)
    \/ Wake(Caller)
    \/ SeqTick

SpecSeq == SeqInit /\ [][SeqNext]_vars

(***************************************************************************)
(* BedrockHandler.invoke_model: the retry loop around one remote call.     *)
(* Durations are whole seconds; random.uniform is sampled at whole         *)
(* multiples of the base delay.                                            *)
(***************************************************************************)

\* Largest max_retries argument explored.
MaxRetries == 3

\* The initial_backoff_seconds arguments explored.
Bases == {1, 8}

\* The limiters the call runs against: (requests per minute, burst capacity).
IvkRates == {1, 20}
IvkCaps == {1}

\* Line 330: rate_limiter.acquire(timeout=30).
AcquireTimeout == 30

\* Line 375: 3 ** attempt, and random.uniform(0, 2).
TokenFactor == 3
TokenJitterMax == 2

\* Line 376: min(wait_time, 60).
MaxTokenBackoff == 60

\* Line 380: 2 ** attempt, and random.uniform(0, 1).
StandardFactor == 2
StandardJitterMax == 1

\* Line 368.
retryable_errors == {"ThrottlingException", "ModelTimeoutException",
                     "ServiceUnavailableException", "InternalServerException"}

\* The error codes the handler names at lines 389-393.
FatalErrors == {"AccessDeniedException", "ResourceNotFoundException",
                "ValidationException"}

\* The error codes a ClientError of the remote call carries; the last one
\* stands for every code the handler does not name.
ErrorCodes == retryable_errors \cup FatalErrors \cup {"ModelNotReadyException"}

\* The error messages of a ClientError, as sequences of words.
Messages == {<<"Too", "many", "tokens">>, <<"Too", "many", "TOKENS">>,
             <<"Too", "many", "requests">>}

\* str.lower() on one word.
LowerWord(w) ==
    CASE w = "Too" -> "too"
      [] w = "TOKENS" -> "tokens"
      [] w = "Tokens" -> "tokens"
      [] w = "ThrottlingException" -> "throttlingexception"
      [] w = "Anthropic." -> "anthropic."
      [] w = "Claude" -> "claude"
      [] w = "Titan" -> "titan"
      [] w = "On-demand" -> "on-demand"
      [] w = " InvokeModel " -> " invokemodel "
      [] w = " Sonnet" -> " sonnet"
      [] w = " Opus" -> " opus"
      [] w = " Text" -> " text"
      [] w = " Instant" -> " instant"
      [] OTHER -> w

\* str.lower() on a message.
Lower(msg) == [i \in 1..Len(msg) |-> LowerWord(msg[i])]

\* Line 373: 'tokens' in error_message.lower().
MentionsTokens(msg) == \E i \in 1..Len(Lower(msg)) : Lower(msg)[i] = "tokens"

\* Line 373: the throttling that gets the extended backoff.
IsTokenThrottling(code, msg) ==
    code = "ThrottlingException" /\ MentionsTokens(msg)

RECURSIVE Pow(_, _)
Pow(b, e) == IF e = 0 THEN 1 ELSE b * Pow(b, e - 1)

\* Lines 375-376, a backoff that does not grow with the attempt.
TokenBackoffFlat(base, att, jit) == Min(base + jit * base, MaxTokenBackoff)

\* Line 375 without line 376: no cap.
TokenBackoffUncapped(base, att, jit) ==
    base * Pow(TokenFactor, att) + jit * base

\* Lines 375-376.
TokenBackoff(base, att, jit) ==
    Min(base * Pow(TokenFactor, att) + jit * base, MaxTokenBackoff)

\* Line 380.
StandardBackoff(base, att, jit) == base * Pow(StandardFactor, att) + jit * base

\* Line 371, with ValidationException taken for a retryable code.
CanRetryInvalid(code, att, maxr) ==
    code \in retryable_errors \cup {"ValidationException"} /\ att < maxr

\* Line 371, with the last attempt retried too.
CanRetryOnceMore(code, att, maxr) == code \in retryable_errors /\ att <= maxr

\* Line 371.
CanRetry(code, att, maxr) == code \in retryable_errors /\ att < maxr

\* Lines 389-399: the exception a ClientError that is not retried becomes.
ClientFailure(code, maxr) ==
    CASE code = "AccessDeniedException" ->
           [exc |-> "RuntimeError", kind |-> code, attempts |-> 0]
      [] code = "ResourceNotFoundException" ->
           [exc |-> "RuntimeError", kind |-> code, attempts |-> 0]
      [] code = "ValidationException" ->
           [exc |-> "ValueError", kind |-> code, attempts |-> 0]
      [] OTHER ->
           [exc |-> "RuntimeError", kind |-> code,
            attempts |-> IF code \in retryable_errors THEN maxr + 1 ELSE 0]

\* Lines 401-406: any other exception inside the try block.
Unexpected(what) == [exc |-> "RuntimeError", kind |-> what, attempts |-> 0]

\* The response bodies of a remote call that did not fail: text the model
\* generated, a body that is not JSON, and JSON without a text in it.
Texts == {<<"a">>, <<" ", "a", "b", " ">>, <<" ">>, <<>>}
Responses == [form : {"text"}, text : Texts]
             \cup {[form |-> "not_json", text |-> <<>>],
                   [form |-> "no_text", text |-> <<>>]}

RECURSIVE StripLeft(_)
StripLeft(s) == IF s # <<>> /\ Head(s) = " " THEN StripLeft(Tail(s)) ELSE s

RECURSIVE StripRight(_)
StripRight(s) ==
    IF s # <<>> /\ s[Len(s)] = " "
    THEN StripRight(SubSeq(s, 1, Len(s) - 1)) ELSE s

\* Line 362: str.strip().
Strip(s) == StripRight(StripLeft(s))

\* Lines 346-352: json.loads accepts the body.
Decodes(resp) == resp.form # "not_json"

\* Line 356, taking whatever was extracted for a text.
HasValidTextAlways(resp) == TRUE

\* Line 356: the extracted generated_text is a str.
HasValidText(resp) == resp.form = "text"

\* Lines 327-330, with the loop going straight to the remote call.
LoopTopNoAcquire == "remote"

\* Lines 327-330: an iteration of the loop starts with acquire.
LoopTop == "acquire"

\* Python's "pat in str".
Contains(pat, str) ==
    \E i \in 0..(Len(str) - Len(pat)) : SubSeq(str, i + 1, i + Len(pat)) = pat

\* dict: key in d.
HasKey(d, k) == \E i \in 1..Len(d) : d[i].key = k

\* dict: d[k], for a key of d.
Get(d, k) == d[CHOOSE i \in 1..Len(d) : d[i].key = k].value

\* dict: d[k] = v; a new key goes last, a known key keeps its place.
Put(d, k, v) ==
    IF HasKey(d, k)
    THEN [i \in 1..Len(d) |-> IF d[i].key = k THEN [key |-> k, value |-> v]
                                              ELSE d[i]]
    ELSE Append(d, [key |-> k, value |-> v])

(***************************************************************************)
(* TokenCalculator (src/src/token_calculator.py).                          *)
(*                                                                         *)
(* A text is a sequence of pieces joined by "\n"; the piece [w, n] is n    *)
(* lines that each read w.  The counts the regular expressions of the      *)
(* calculator find in a line are listed per line in WordFacts.             *)
(*                                                                         *)
(* The complexity factor is kept as a whole number of 1/100000; the factors*)
(* 1.3, 1 + 0.1 k, 1.2 and 1.15 multiply to such numbers exactly.  A float *)
(* product that is a whole number when computed exactly may come out just  *)
(* below it, and int() then gives one less: both outcomes are kept.        *)
(* math.log10 is taken where it is exact, at 500 * 10^k input tokens.      *)
(***************************************************************************)

\* Largest number of pieces of a text, before padding.
MaxPieces == 2

\* Line 18.
CHARS_PER_TOKEN == 4

AnalysisTypes == {"summary", "heavy_analysis", "individual_file",
                  "structured_extraction", "release_notes"}

\* An analysis_type the tables do not list.
OtherType == "custom"

\* Lines 22-28.
BASE_TOKENS ==
    [a \in AnalysisTypes |->
        CASE a = "summary" -> 200
          [] a = "heavy_analysis" -> 800
          [] a = "individual_file" -> 300
          [] a = "structured_extraction" -> 400
          [] a = "release_notes" -> 150]

\* Lines 32-38.
MAX_TOKENS ==
    [a \in AnalysisTypes |->
        CASE a = "summary" -> 400
          [] a = "heavy_analysis" -> 1500
          [] a = "individual_file" -> 800
          [] a = "structured_extraction" -> 1000
          [] a = "release_notes" -> 300]

\* Lines 41-47.
MIN_TOKENS ==
    [a \in AnalysisTypes |->
        CASE a = "summary" -> 100
          [] a = "heavy_analysis" -> 500
          [] a = "individual_file" -> 300
          [] a = "structured_extraction" -> 200
          [] a = "release_notes" -> 50]

\* dict.get(k, default).
GetOr(d, k, default) == IF k \in DOMAIN d THEN d[k] ELSE default

\* Lines 150 and 153-155: the defaults of the three .get calls.
DefaultMin == 300
DefaultBase == 1000
DefaultMax == 4000

Max(a, b) == IF a >= b THEN a ELSE b

\* The lines a text is made of.
Words == {"xxx", "+++ b/a.py", "+x = f(y);", "-x", "def f", "class C",
          "const c", "{};"}

\* Per line: len(), and the matches of the regular expressions of line 68
\* (indicators), line 99 (code), line 105 (files), line 110 (added), line 111
\* (deleted) and lines 119-122 (langs: the languages with a match).
WordFacts(w) ==
    CASE w = "xxx" ->
           [chars |-> 3, indicators |-> 0, code |-> 0, files |-> 0,
            added |-> 0, deleted |-> 0, langs |-> {}]
      [] w = "+++ b/a.py" ->
           [chars |-> 10, indicators |-> 0, code |-> 4, files |-> 1,
            added |-> 0, deleted |-> 0, langs |-> {}]
      [] w = "+x = f(y);" ->
           [chars |-> 10, indicators |-> 3, code |-> 5, files |-> 0,
            added |-> 1, deleted |-> 0, langs |-> {}]
      [] w = "-x" ->
           [chars |-> 2, indicators |-> 0, code |-> 1, files |-> 0,
            added |-> 0, deleted |-> 1, langs |-> {}]
      [] w = "def f" ->
           [chars |-> 5, indicators |-> 0, code |-> 0, files |-> 0,
            added |-> 0, deleted |-> 0, langs |-> {"python"}]
      [] w = "class C" ->
           [chars |-> 7, indicators |-> 0, code |-> 0, files |-> 0,
            added |-> 0, deleted |-> 0, langs |-> {"python", "java"}]
      [] w = "const c" ->
           [chars |-> 7, indicators |-> 0, code |-> 0, files |-> 0,
            added |-> 0, deleted |-> 0, langs |-> {"javascript"}]
      [] w = "{};" ->
           [chars |-> 3, indicators |-> 3, code |-> 3, files |-> 0,
            added |-> 0, deleted |-> 0, langs |-> {}]

\* The matches of one of the expressions in the whole text.
RECURSIVE Total(_, _)
Total(text, what) ==
    IF text = <<>> THEN 0
    ELSE Head(text).n * WordFacts(Head(text).w)[what] + Total(Tail(text), what)

\* Line 92: len(content.split('\n')).
RECURSIVE TotalLines(_)
TotalLines(text) ==
    IF text = <<>> THEN 0 ELSE Head(text).n + TotalLines(Tail(text))

\* len(text): the characters of the lines and the "\n" between them.
TextLen(text) ==
    IF text = <<>> THEN 0 ELSE Total(text, "chars") + TotalLines(text) - 1

\* Line 125: the languages with at least one match.
RECURSIVE Languages(_)
Languages(text) ==
    IF text = <<>> THEN {}
    ELSE WordFacts(Head(text).w).langs \cup Languages(Tail(text))

\* Lines 50-73: estimate_input_tokens(text).
EstimateInputTokens(text) ==
    IF text = <<>> THEN 0
    ELSE LET estimated_tokens == TextLen(text) \div CHARS_PER_TOKEN
         IN  IF Total(text, "indicators") > 0
             THEN (estimated_tokens * 12) \div 10
             ELSE estimated_tokens

\* The complexity factor 1.0.
FactorUnit == 100000

\* Line 129 without the cap.
CapFactorNone(f) == f

\* Line 129: min(complexity_factor, 2.0).
CapFactor(f) == Min(f, 2 * FactorUnit)

\* Lines 101, 106, 114 and 126: the conditions of the four factors.
DenseCode(content) == 10 * Total(content, "code") > TextLen(content)
ManyFiles(content) == Total(content, "files") > 1
LargeChange(content) ==
    2 * (Total(content, "added") + Total(content, "deleted"))
        > TotalLines(content)
ManyLanguages(content) == Cardinality(Languages(content)) > 1

\* Lines 75-129: calculate_complexity_factor(content).
CalculateComplexityFactor(content) ==
    IF content = <<>> THEN FactorUnit
    ELSE LET f1 == IF DenseCode(content)
                   THEN (FactorUnit * 13) \div 10 ELSE FactorUnit
             f2 == IF ManyFiles(content)
                   THEN (f1 * (10 + (Total(content, "files") - 1))) \div 10
                   ELSE f1
             f3 == IF LargeChange(content) THEN (f2 * 12) \div 10 ELSE f2
             f4 == IF ManyLanguages(content) THEN (f3 * 115) \div 100 ELSE f3
         IN  CapFactor(f4)

\* int(num / den) for a float product whose exact value is num / den: when
\* the factors are not exact floats and the exact value is whole, the float
\* may lie just below it.
IntOf(num, den, exact) ==
    IF num % den = 0 /\ ~ exact
    THEN {(num \div den) - 1, num \div den}
    ELSE {num \div den}

\* The factors 1.0 and 2.0 are exact floats.
ExactFactor(f) == f \in {FactorUnit, 2 * FactorUnit}

\* r is a power of ten.
RECURSIVE IsPowerOfTen(_)
IsPowerOfTen(r) ==
    IF r = 1 THEN TRUE
    ELSE IF r < 10 \/ r % 10 # 0 THEN FALSE
    ELSE IsPowerOfTen(r \div 10)

\* math.log10(r) for a power of ten.
RECURSIVE LogTen(_)
LogTen(r) == IF r < 10 THEN 0 ELSE 1 + LogTen(r \div 10)

\* The texts whose scale factor (line 174) is computed exactly: fewer than
\* 500 input tokens, or 500 * 10^k.
Sizable(text) ==
    LET input_tokens == EstimateInputTokens(text)
    IN  \/ input_tokens < 500
        \/ input_tokens % 500 = 0 /\ IsPowerOfTen(input_tokens \div 500)

\* Line 178 without the bounds.
ApplyBoundsNone(calculated_tokens, min_tokens, max_tokens_of_type) ==
    calculated_tokens

\* Line 178: max(min_tokens, min(max_tokens, calculated_tokens)).
ApplyBounds(calculated_tokens, min_tokens, max_tokens_of_type) ==
    Max(min_tokens, Min(max_tokens_of_type, calculated_tokens))

\* Lines 182-184: the window limits the result, not below min_tokens.  A
\* window of 0 is no window ("if model_context_window:").
ApplyWindow(calculated_tokens, min_tokens, window, input_tokens) ==
    IF window # None
    THEN Min(calculated_tokens,
             Max(min_tokens, window - input_tokens - 100))
    ELSE calculated_tokens

\* Lines 164-175: the values calculated_tokens can take before the bounds.
CalculatedTokens(base_tokens, min_tokens, input_tokens, factor) ==
    IF input_tokens < 100 THEN {min_tokens}
    ELSE IF input_tokens < 500
    THEN IntOf(base_tokens * factor, FactorUnit, ExactFactor(factor))
    ELSE IntOf(base_tokens * (2 + LogTen(input_tokens \div 500)) * factor,
               2 * FactorUnit, ExactFactor(factor))

\* Lines 131-191: the values calculate_dynamic_max_tokens(input_content,
\* analysis_type, model_context_window) can return.
CalculateDynamicMaxTokens(input_content, analysis_type, window) ==
    IF input_content = <<>>
    THEN {GetOr(MIN_TOKENS, analysis_type, DefaultMin)}
    ELSE LET base_tokens == GetOr(BASE_TOKENS, analysis_type, DefaultBase)
             max_tokens_of_type == GetOr(MAX_TOKENS, analysis_type, DefaultMax)
             min_tokens == GetOr(MIN_TOKENS, analysis_type, DefaultMin)
             input_tokens == EstimateInputTokens(input_content)
             factor == CalculateComplexityFactor(input_content)
         IN  {ApplyWindow(ApplyBounds(v, min_tokens, max_tokens_of_type),
                          min_tokens, window, input_tokens) :
                 v \in CalculatedTokens(base_tokens, min_tokens, input_tokens,
                                        factor)}

\* Lines 205-233: context_limits, in the order of the dict.  A model id is a
\* sequence of words; the words that begin with "-" are those of HyphenWords.
context_limits ==
    << [key |-> <<"anthropic.", "claude", "-v2">>, value |-> 100000],
       [key |-> <<"anthropic.", "claude", "-v2", ":1">>, value |-> 100000],
       [key |-> <<"anthropic.", "claude", "-3", "-sonnet", "-20240229",
                  "-v1:0">>, value |-> 200000],
       [key |-> <<"anthropic.", "claude", "-3", "-haiku", "-20240307",
                  "-v1:0">>, value |-> 200000],
       [key |-> <<"anthropic.", "claude", "-3", "-opus", "-20240229",
                  "-v1:0">>, value |-> 200000],
       [key |-> <<"anthropic.", "claude", "-instant", "-v1">>,
        value |-> 100000],
       [key |-> <<"claude", "-sonnet", "-4", "-20250514">>, value |-> 200000],
       [key |-> <<"anthropic.", "claude", "-4", "-sonnet">>, value |-> 200000],
       [key |-> <<"claude", "-4", "-sonnet">>, value |-> 200000],
       [key |-> <<"claude", "-4", "-haiku">>, value |-> 200000],
       [key |-> <<"claude", "-4", "-opus">>, value |-> 200000],
       [key |-> <<"amazon.", "titan", "-text", "-lite", "-v1">>,
        value |-> 4000],
       [key |-> <<"amazon.", "titan", "-text", "-express", "-v1">>,
        value |-> 8000],
       [key |-> <<"amazon.", "titan", "-text", "-large", "-v1">>,
        value |-> 8000],
       [key |-> <<"ai21.", "j2", "-ultra", "-v1">>, value |-> 8192],
       [key |-> <<"ai21.", "j2", "-mid", "-v1">>, value |-> 8192],
       [key |-> <<"cohere.", "command", "-text", "-v14">>, value |-> 4096],
       [key |-> <<"cohere.", "command", "-light", "-text", "-v14">>,
        value |-> 4096] >>

HyphenWords == {"-v2", "-3", "-4", "-sonnet", "-haiku", "-opus", "-instant",
                "-v1", "-v1:0", "-v14", "-20240229", "-20240307", "-20250514",
                "-text", "-lite", "-express", "-large", "-ultra", "-mid",
                "-light"}

\* Line 241: pattern.split('-')[0].
RECURSIVE FirstPart(_)
FirstPart(pattern) ==
    IF pattern = <<>> \/ Head(pattern) \in HyphenWords THEN <<>>
    ELSE <<Head(pattern)>> \o FirstPart(Tail(pattern))

\* Line 246: the limit of a model no pattern matches.
DefaultContextLimit == 4000

\* Lines 193-246: get_model_context_limits(model_id).
GetModelContextLimits(model_id) ==
    IF HasKey(context_limits, model_id) THEN Get(context_limits, model_id)
    ELSE LET hits == {i \in 1..Len(context_limits) :
                         Contains(FirstPart(context_limits[i].key), model_id)}
         IN  IF hits = {} THEN DefaultContextLimit
             ELSE context_limits[CHOOSE i \in hits :
                                     \A j \in hits : i <= j].value

\* The texts of the model: up to MaxPieces pieces, followed or not by enough
\* lines "xxx" to bring len(text) // 4 to one of the sizes of PadSizes.
Pieces ==
    {[w |-> w, n |-> 1] : w \in Words \ {"xxx"}}
        \cup {[w |-> "+++ b/a.py", n |-> 12]}

Unpadded == UNION {[1..k -> Pieces] : k \in 0..MaxPieces}

PadSizes == {99, 100, 417, 499, 500, 4167, 5000}

Padded(text, size) ==
    LET rows == IF text = <<>> THEN size + 1
                ELSE size - (TextLen(text) \div CHARS_PER_TOKEN)
    IN  IF rows > 0 THEN Append(text, [w |-> "xxx", n |-> rows]) ELSE text

PaddedTexts ==
    Unpadded \cup {Padded(text, size) : text \in Unpadded, size \in PadSizes}

\* The texts given to calculate_dynamic_max_tokens.
Contents == {text \in PaddedTexts : Sizable(text)}

\* The context windows given to it; None is no window.
Windows == {None, 600, 100000}

\* The call ends by raising e.
Raise(e) ==
    /\ outcome' = "raised"
    /\ raised' = e
    /\ ipc' = "done"

\* The arguments of the calls explored: an empty and a usual model id, an
\* empty and a short prompt, max_tokens given or not.
IvkModelIds == {<<>>, <<"anthropic.", "claude", "-3", "-sonnet">>}
IvkPrompts == {<<>>, <<[w |-> "def f", n |-> 1]>>}
IvkMaxTokens == {NotGiven, 256}
IvkTypes == {"individual_file"}

\* Lines 304 and 307: ValueError for an empty argument.
InvalidArgument(what) == [exc |-> "ValueError", kind |-> what, attempts |-> 0]

\* Lines 302-307, letting empty arguments through.
ArgumentsValidAlways(a) == TRUE

\* Lines 302-307: neither model_id nor prompt is empty.
ArgumentsValid(a) == a.model_id # <<>> /\ a.prompt # <<>>

\* Line 310, calculating whatever the caller gave.
MaxTokensMissingAlways(given) == TRUE

\* Line 310: max_tokens is None.
MaxTokensMissing(given) == given = NotGiven

\* Lines 302-317: the arguments are validated and, when the caller gave no
\* max_tokens, it is calculated from the prompt.
IvkEnter ==
    /\ ipc = "enter"
    /\ IF ~ ArgumentsValid(args)
       THEN /\ Raise(InvalidArgument(IF args.model_id = <<>>
                                     THEN "EmptyModelId" ELSE "EmptyPrompt"))
            /\ all_retryable' = FALSE
            /\ UNCHANGED <<max_tokens, sizer_calls>>
       ELSE /\ ipc' = "start"
            /\ IF MaxTokensMissing(max_tokens)
               THEN /\ \E v \in CalculateDynamicMaxTokens(
                                     args.prompt, args.analysis_type,
                                     GetModelContextLimits(args.model_id)) :
                           max_tokens' = v
                    /\ sizer_calls' = sizer_calls + 1
               ELSE UNCHANGED <<max_tokens, sizer_calls>>
            /\ UNCHANGED <<outcome, raised, all_retryable>>
    /\ UNCHANGED <<max_retries, initial_backoff_seconds, attempt, result,
                   last_code, remote_calls, backoffs, last_response,
                   response_form, recording, budVars, auxVars, args, sent>>
    /\ UNCHANGED limVars

\* Lines 320-327: rate_limiter = get_global_rate_limiter(); attempt = 0; the
\* loop is entered.
IvkGetLimiter ==
    /\ ipc = "start"
    /\ GetGlobalLimiter(Caller)
    /\ ipc' = LoopTop
    /\ UNCHANGED <<max_retries, initial_backoff_seconds, attempt,
                   outcome, result, raised, last_code, remote_calls, backoffs,
                   all_retryable, last_response, response_form, recording, budVars,
                   auxVars, args, max_tokens, sizer_calls, sent>>

\* Line 330: the attempt asks the limiter for a token.
IvkAcquire ==
    /\ ipc = "acquire"
    /\ EnterAcquire(Caller, AcquireTimeout)
    /\ ipc' = "acquiring"
    /\ UNCHANGED <<max_retries, initial_backoff_seconds, attempt,
                   outcome, result, raised, last_code, remote_calls, backoffs,
                   all_retryable, last_response, response_form, recording, budVars,
                   auxVars, args, max_tokens, sizer_calls, sent>>

\* Line 330: acquire returned True, the attempt goes on to the remote call.
IvkAcquired ==
    /\ ipc = "acquiring"
    /\ pc[Caller] = "idle"
    /\ ret[Caller] = "True"
    /\ ipc' = "remote"
    /\ UNCHANGED <<max_retries, initial_backoff_seconds, attempt,
                   outcome, result, raised, last_code, remote_calls, backoffs,
                   all_retryable, last_response, response_form, recording, budVars,
                   auxVars, args, max_tokens, sizer_calls, sent>>
    /\ UNCHANGED limVars

\* Lines 330-332 and 401-406: acquire returned False; the RuntimeError is
\* raised inside the try block and leaves the call through except Exception.
IvkAcquireTimedOut ==
    /\ ipc = "acquiring"
    /\ pc[Caller] = "idle"
    /\ ret[Caller] = "False"
    /\ Raise(Unexpected("RateLimiterTimeout"))
    /\ all_retryable' = FALSE
    /\ UNCHANGED <<max_retries, initial_backoff_seconds, attempt, result,
                   last_code, remote_calls, backoffs, last_response,
                   response_form, recording, budVars,
                   auxVars, args, max_tokens, sizer_calls, sent>>
    /\ UNCHANGED limVars

\* Lines 338-362 and 401-406: the remote call answers with a body.
RemoteResponds(resp) ==
    /\ ipc = "remote"
    /\ remote_calls' = remote_calls + 1
    /\ sent' = Append(sent, max_tokens)
    /\ last_code' = "none"
    /\ all_retryable' = FALSE
    /\ last_response' = resp.text
    /\ response_form' = resp.form
    /\ IF ~ Decodes(resp)
       THEN Raise(Unexpected("JSONDecodeError")) /\ UNCHANGED result
       ELSE IF ~ HasValidText(resp)
       THEN Raise(Unexpected("NoValidText")) /\ UNCHANGED result
       ELSE /\ outcome' = "returned"
            /\ result' = Strip(resp.text)
            /\ ipc' = "done"
            /\ UNCHANGED raised
    /\ UNCHANGED <<max_retries, initial_backoff_seconds, attempt, backoffs,
                   recording, budVars,
                   auxVars, args, max_tokens, sizer_calls>>
    /\ UNCHANGED limVars

\* Lines 338 and 401-406: the remote call raises something that is not a
\* ClientError.
RemoteRaisesOther ==
    /\ ipc = "remote"
    /\ remote_calls' = remote_calls + 1
    /\ sent' = Append(sent, max_tokens)
    /\ last_code' = "none"
    /\ all_retryable' = FALSE
    /\ Raise(Unexpected("Exception"))
    /\ UNCHANGED <<max_retries, initial_backoff_seconds, attempt, result,
                   backoffs, last_response, response_form, recording, budVars,
                   auxVars, args, max_tokens, sizer_calls>>
    /\ UNCHANGED limVars

\* Lines 338, 364-399, 327 and 410-411: the remote call raises
\* ClientError(code, msg). The handler either sleeps for the backoff (jit is
\* what random.uniform drew), counts the attempt and goes round the loop, or
\* raises.
RemoteClientError(code, msg, jit) ==
    /\ ipc = "remote"
    /\ remote_calls' = remote_calls + 1
    /\ sent' = Append(sent, max_tokens)
    /\ last_code' = code
    /\ all_retryable' = (all_retryable /\ code \in retryable_errors)
    /\ IF CanRetry(code, attempt, max_retries)
       THEN LET tok == IsTokenThrottling(code, msg)
                wait_time ==
                    IF tok
                    THEN TokenBackoff(initial_backoff_seconds, attempt, jit)
                    ELSE StandardBackoff(initial_backoff_seconds, attempt, jit)
            IN  /\ jit <= (IF tok THEN TokenJitterMax ELSE StandardJitterMax)
                /\ AdvanceBy(wait_time)
                /\ backoffs' = Append(backoffs,
                                      [tok |-> tok, wait |-> wait_time])
                /\ attempt' = attempt + 1
                /\ IF attempt + 1 <= max_retries
                   THEN ipc' = LoopTop /\ UNCHANGED <<outcome, raised>>
                   ELSE Raise([exc |-> "RuntimeError", kind |-> "Exhausted",
                               attempts |-> max_retries + 1])
       ELSE /\ jit = 0
            /\ Raise(ClientFailure(code, max_retries))
            /\ UNCHANGED <<attempt, backoffs>>
            /\ UNCHANGED limVars
    /\ UNCHANGED <<max_retries, initial_backoff_seconds, result,
                   last_response, response_form, recording, budVars,
                   auxVars, args, max_tokens, sizer_calls>>

\* One second of the limiter's sleep passes.
IvkTick ==
    /\ pc[Caller] = "sleep"
    /\ now < wake_at[Caller]
    /\ Advance

\* invoke_model(model_id, prompt, max_tokens, max_retries,
\* initial_backoff_seconds, analysis_type) has been called, at time 0, in a
\* process whose limiter was constructed at time 0.
IvkInit ==
    /\ Constructed0(IvkRates, IvkCaps)
    /\ recording = TRUE
    /\ max_retries \in 0..MaxRetries
    /\ initial_backoff_seconds \in Bases
    /\ attempt = 0
    /\ args \in [model_id : IvkModelIds, prompt : IvkPrompts,
                  max_tokens : IvkMaxTokens, analysis_type : IvkTypes]
    /\ max_tokens = args.max_tokens
    /\ sizer_calls = 0
    /\ sent = <<>>
    /\ AuxAtRest
    /\ ipc = "enter"
    /\ outcome = "running"
    /\ result = <<>>
    /\ raised = NoException
    /\ last_code = "none"
    /\ remote_calls = 0
    /\ backoffs = <<>>
    /\ all_retryable = TRUE
    /\ last_response = <<>>
    /\ response_form = "none"
    /\ BudgetAtRest(FreshManager)

IvkNext ==
    \/ IvkEnter
    \/ IvkGetLimiter
    \/ IvkAcquire
    \/ AcquireLock(Caller)
    \/ Refill(Caller)
    \/ TestTokens(Caller)
    \/ TakeToken(Caller)
    \/ CheckTimeout(Caller)
    \/ Wake(Caller)
    \/ IvkTick
    \/ IvkAcquired
    \/ IvkAcquireTimedOut
    \/ \E resp \in Responses : RemoteResponds(resp)
    \/ RemoteRaisesOther
    \/ \E code \in ErrorCodes, msg \in Messages, jit \in 0..TokenJitterMax :
          RemoteClientError(code, msg, jit)

SpecInvoke == IvkInit /\ [][IvkNext]_vars

\* The one thread of the call keeps running and its sleeps end.
SpecInvokeLive == SpecInvoke /\ WF_vars(IvkNext)

(***************************************************************************)
(* TokenBudgetManager and ServiceQuotaClient: quota discovery, the quota   *)
(* lookup and the usage log.                                               *)
(***************************************************************************)

\* Lines 313-320: the place in d of the first pattern, in iteration order,
\* that is in model_id.lower(); 0 when there is none.
FirstMatch(d, model_id) ==
    LET hits == {i \in 1..Len(d) : Contains(d[i].key, Lower(model_id))}
    IN  IF hits = {} THEN 0 ELSE CHOOSE i \in hits : \A j \in hits : i <= j

\* Lines 312-322, looking at the fallback table first.
LookupFallbackFirst(m, model_id) ==
    IF FirstMatch(m.fallback_quotas, model_id) # 0
    THEN m.fallback_quotas[FirstMatch(m.fallback_quotas, model_id)].value
    ELSE Get(m.fallback_quotas, <<"default">>)

\* Lines 312-322: the quota get_quota_for_model reads off the manager m.
Lookup(m, model_id) ==
    IF m.quota_cache # <<>> /\ FirstMatch(m.quota_cache, model_id) # 0
    THEN m.quota_cache[FirstMatch(m.quota_cache, model_id)].value
    ELSE IF FirstMatch(m.fallback_quotas, model_id) # 0
    THEN m.fallback_quotas[FirstMatch(m.fallback_quotas, model_id)].value
    ELSE Get(m.fallback_quotas, <<"default">>)

\* Lines 298-302: _is_quota_cache_valid() at time t.
IsQuotaCacheValid(m, t) ==
    IF m.quota_cache_time = None THEN FALSE
    ELSE t - m.quota_cache_time < m.quota_cache_ttl

\* A quota entry whose Value is missing.
NoValue == -1

\* Entries of a list_service_quotas answer.
QuotaEntry(name, v) == [QuotaName |-> name, Value |-> v]
Claude3Name == <<"On-demand", " InvokeModel ", "tokens per minute", " for ",
                 "Claude", " 3", " Sonnet">>
Claude4Name == <<"On-demand", " InvokeModel ", "tokens per minute", " for ",
                 "Claude", " 4", " Opus">>
ClaudeInstantName == <<"On-demand", " InvokeModel ", "tokens per minute",
                       " for ", "Claude", " Instant">>
TitanName == <<"On-demand", " InvokeModel ", "tokens per minute", " for ",
               "Titan", " Text">>
RequestsName == <<"On-demand", " InvokeModel ", "requests per minute", " for ",
                  "Claude", " 3", " Sonnet">>

\* What happens when _discover_quotas turns to the quota service: boto3 gives
\* no client, list_service_quotas raises, or it answers with a list.
Answers ==
    { [client |-> FALSE, raises |-> FALSE, Quotas |-> <<>>],
      [client |-> TRUE, raises |-> TRUE, Quotas |-> <<>>],
      [client |-> TRUE, raises |-> FALSE, Quotas |-> <<>>],
      [client |-> TRUE, raises |-> FALSE,
       Quotas |-> <<QuotaEntry(RequestsName, 100),
                    QuotaEntry(ClaudeInstantName, 40000),
                    QuotaEntry(Claude3Name, 20000),
                    QuotaEntry(TitanName, 7000)>>],
      [client |-> TRUE, raises |-> FALSE,
       Quotas |-> <<QuotaEntry(Claude3Name, 30000),
                    QuotaEntry(Claude4Name, NoValue)>>],
      [client |-> TRUE, raises |-> FALSE,
       Quotas |-> <<QuotaEntry(TitanName, NoValue),
                    QuotaEntry(Claude3Name, 30000)>>] }

\* Line 475: the name is of an on-demand tokens-per-minute quota.
IsTokenQuota(quota_name) ==
    /\ Contains(<<"tokens per minute">>, quota_name)
    /\ Contains(<<"on-demand">>, quota_name)

\* Lines 478-485: the pattern the quota is filed under; <<>> when none.
FamilyOf(quota_name) ==
    IF Contains(<<"claude", " 3">>, quota_name)
       \/ Contains(<<"claude", "-3">>, quota_name)
    THEN <<"claude", "-3">>
    ELSE IF Contains(<<"claude", " 4">>, quota_name)
            \/ Contains(<<"claude", "-4">>, quota_name)
    THEN <<"claude", "-4">>
    ELSE IF Contains(<<"claude">>, quota_name)
    THEN <<"anthropic.", "claude">>
    ELSE IF Contains(<<"titan">>, quota_name)
    THEN <<"amazon.", "titan">>
    ELSE <<>>

\* Lines 471-493: the loop over the answer's entries, with the quotas found
\* so far; int(None) raises and the except clause returns what was found.
RECURSIVE ParseQuotas(_, _)
ParseQuotas(entries, quotas) ==
    IF entries = <<>> THEN [quotas |-> quotas, failed |-> FALSE]
    ELSE LET quota_name == Lower(Head(entries).QuotaName)
             quota_value == Head(entries).Value
         IN  IF IsTokenQuota(quota_name) /\ FamilyOf(quota_name) # <<>>
             THEN IF quota_value = NoValue
                  THEN [quotas |-> quotas, failed |-> TRUE]
                  ELSE ParseQuotas(Tail(entries),
                                   Put(quotas, FamilyOf(quota_name),
                                       quota_value))
             ELSE ParseQuotas(Tail(entries), quotas)

\* Lines 456-493: ServiceQuotaClient().get_all_bedrock_quotas().
GetAllBedrockQuotas(ans) ==
    IF ~ ans.client THEN [quotas |-> <<>>, outcome |-> "no_client"]
    ELSE IF ans.raises THEN [quotas |-> <<>>, outcome |-> "raised"]
    ELSE LET parsed == ParseQuotas(ans.Quotas, <<>>)
         IN  [quotas |-> parsed.quotas,
              outcome |-> IF parsed.failed THEN "parse_failed"
                          ELSE IF parsed.quotas = <<>> THEN "empty" ELSE "ok"]

\* Lines 288-289: fallback_quotas[pattern] = quota for every discovered one.
RECURSIVE UpdateAll(_, _)
UpdateAll(d, found) ==
    IF found = <<>> THEN d
    ELSE UpdateAll(Put(d, Head(found).key, Head(found).value), Tail(found))

\* Lines 271-296: the manager after _discover_quotas() at time t.
Discovered(m, ans, t) ==
    IF disable_quota_discovery THEN m
    ELSE LET discovered_quotas == GetAllBedrockQuotas(ans).quotas
         IN  IF discovered_quotas # <<>>
             THEN [m EXCEPT !.quota_cache = discovered_quotas,
                            !.quota_cache_time = t,
                            !.fallback_quotas =
                                UpdateAll(m.fallback_quotas, discovered_quotas)]
             ELSE m

\* The history d after _discover_quotas() at time t.
DiscoveryNoted(d, ans, t) ==
    IF disable_quota_discovery THEN [d EXCEPT !.outcome = "disabled"]
    ELSE IF ~ ans.client THEN [d EXCEPT !.outcome = "no_client"]
    ELSE [outcome |-> GetAllBedrockQuotas(ans).outcome,
          prev_trip |-> d.last_trip,
          last_trip |-> t]

\* Largest number of record_usage calls explored.
MaxRecords == 2

\* The instants at which the manager is called.
TimePoints == {1, 61, 62, 301}

\* The token amounts recorded.
Amounts == {1, 2}

\* The token amounts asked for.
Requests == {6999, 7000}

\* Line 341: sum(tokens for _, tokens in entries).
RECURSIVE SumTokens(_)
SumTokens(entries) ==
    IF entries = <<>> THEN 0
    ELSE Head(entries).tokens + SumTokens(Tail(entries))

\* Lines 331-334, keeping the entry that is exactly 60 s old.
KeepRecentInclusive(entries, current_time) ==
    SelectSeq(entries,
              LAMBDA e : e.timestamp >= current_time - UsageWindow)

\* Lines 331-334: the entries newer than cutoff_time.
KeepRecent(entries, current_time) ==
    SelectSeq(entries, LAMBDA e : e.timestamp > current_time - UsageWindow)

\* Line 354, refusing a request for exactly what is available.
FitsStrictly(requested_tokens, available) == requested_tokens < available

\* Line 354: requested_tokens <= available.
Fits(requested_tokens, available) == requested_tokens <= available

\* dict: d[k] = v on token_usage_log.
SetLog(log, k, v) ==
    [id \in DOMAIN log \cup {k} |-> IF id = k THEN v ELSE log[id]]

\* The number of entries record_usage has appended.
RECURSIVE CountAll(_, _)
CountAll(rec, ids) ==
    IF ids = {} THEN 0
    ELSE LET id == CHOOSE x \in ids : TRUE
         IN  Len(rec[id]) + CountAll(rec, ids \ {id})

\* The variables of the limiter and of invoke_model.
restVars == <<limVars, ivkVars, auxVars>>

\* A call on the manager returns to its caller.
Return(th, r) ==
    /\ bret' = r
    /\ frame' = [frame EXCEPT ![th] = NoFrame]

\* Lines 371-376 and 253-269: get_global_token_budget_manager() makes the
\* manager, whose __init__ runs _discover_quotas().
GetManager(th, ans) ==
    /\ frame[th].pc = "idle"
    /\ ~ budget.constructed
    /\ budget' = Discovered(FreshManager, ans, now)
    /\ discovery' = DiscoveryNoted(discovery, ans, now)
    /\ UNCHANGED <<disable_quota_discovery, frame, bret, recorded>>
    /\ UNCHANGED restVars

\* Lines 304-322: get_quota_for_model(model_id), refreshing the cache first
\* when it is not valid.
GetQuotaForModel(th, model_id, ans) ==
    /\ frame[th].pc = "idle"
    /\ budget.constructed
    /\ IF IsQuotaCacheValid(budget, now)
       THEN UNCHANGED <<budget, discovery>>
       ELSE /\ budget' = Discovered(budget, ans, now)
            /\ discovery' = DiscoveryNoted(discovery, ans, now)
    /\ Return(th, [op |-> "get_quota_for_model", model_id |-> model_id,
                   requested |-> 0, value |-> Lookup(budget', model_id),
                   allowed |-> FALSE])
    /\ UNCHANGED <<disable_quota_discovery, recorded>>
    /\ UNCHANGED restVars

\* Lines 361-362: record_usage(model_id, tokens_used) reads the clock and
\* looks for the model's list.
RecordCall(th, model_id, tokens_used) ==
    /\ frame[th].pc = "idle"
    /\ budget.constructed
    /\ CountAll(recorded, ModelIds) + Cardinality({t \in Threads :
           frame[t].op = "record_usage" /\ frame[t].pc \in
               {"record_create", "record_append"}}) < MaxRecords
    /\ frame' = [frame EXCEPT ![th] =
                   [NoFrame EXCEPT !.op = "record_usage",
                                   !.model_id = model_id,
                                   !.requested = tokens_used,
                                   !.current_time = now,
                                   !.pc = IF model_id \in
                                             DOMAIN budget.token_usage_log
                                          THEN "record_append"
                                          ELSE "record_create"]]
    /\ bret' = NoReturn
    /\ UNCHANGED <<budget, disable_quota_discovery, recorded, discovery>>
    /\ UNCHANGED restVars

\* Line 363: token_usage_log[model_id] = [].
RecordCreate(th) ==
    /\ frame[th].pc = "record_create"
    /\ budget' = [budget EXCEPT !.token_usage_log =
                     SetLog(@, frame[th].model_id, <<>>)]
    /\ frame' = [frame EXCEPT ![th].pc = "record_append"]
    /\ UNCHANGED <<disable_quota_discovery, bret, recorded, discovery>>
    /\ UNCHANGED restVars

\* Line 365 appending the entry twice.
RecordAppendTwice(th) ==
    /\ frame[th].pc = "record_append"
    /\ LET entry == [timestamp |-> frame[th].current_time,
                     tokens |-> frame[th].requested]
           id == frame[th].model_id
       IN  /\ budget' = [budget EXCEPT !.token_usage_log[id] =
                            Append(Append(@, entry), entry)]
           /\ recorded' = [recorded EXCEPT ![id] = Append(@, entry)]
    /\ frame' = [frame EXCEPT ![th].pc = "clean_check"]
    /\ UNCHANGED <<disable_quota_discovery, bret, discovery>>
    /\ UNCHANGED restVars

\* Line 365: token_usage_log[model_id].append((current_time, tokens_used)).
RecordAppend(th) ==
    /\ frame[th].pc = "record_append"
    /\ LET entry == [timestamp |-> frame[th].current_time,
                     tokens |-> frame[th].requested]
           id == frame[th].model_id
       IN  /\ budget' = [budget EXCEPT !.token_usage_log[id] = Append(@, entry)]
           /\ recorded' = [recorded EXCEPT ![id] = Append(@, entry)]
    /\ frame' = [frame EXCEPT ![th].pc = "clean_check"]
    /\ UNCHANGED <<disable_quota_discovery, bret, discovery>>
    /\ UNCHANGED restVars

\* Line 336: get_current_usage(model_id) is called.
GetCurrentUsageCall(th, model_id) ==
    /\ frame[th].pc = "idle"
    /\ budget.constructed
    /\ frame' = [frame EXCEPT ![th] =
                   [NoFrame EXCEPT !.op = "get_current_usage",
                                   !.model_id = model_id,
                                   !.pc = "clean_check"]]
    /\ bret' = NoReturn
    /\ UNCHANGED <<budget, disable_quota_discovery, recorded, discovery>>
    /\ UNCHANGED restVars

\* Line 343: can_use_tokens(model_id, requested_tokens) is called.
CanUseTokensCall(th, model_id, requested_tokens) ==
    /\ frame[th].pc = "idle"
    /\ budget.constructed
    /\ frame' = [frame EXCEPT ![th] =
                   [NoFrame EXCEPT !.op = "can_use_tokens",
                                   !.model_id = model_id,
                                   !.requested = requested_tokens,
                                   !.pc = "clean_check"]]
    /\ bret' = NoReturn
    /\ UNCHANGED <<budget, disable_quota_discovery, recorded, discovery>>
    /\ UNCHANGED restVars

\* Lines 338, 339 and 326: get_current_usage reads the clock and
\* clean_old_usage looks for the model's list.
CleanCheck(th) ==
    /\ frame[th].pc = "clean_check"
    /\ frame' = [frame EXCEPT ![th].current_time = now,
                              ![th].pc = IF frame[th].model_id \in
                                            DOMAIN budget.token_usage_log
                                         THEN "clean_filter"
                                         ELSE "clean_create"]
    /\ UNCHANGED <<budget, disable_quota_discovery, bret, recorded, discovery>>
    /\ UNCHANGED restVars

\* Line 327: token_usage_log[model_id] = [].
CleanCreate(th) ==
    /\ frame[th].pc = "clean_create"
    /\ budget' = [budget EXCEPT !.token_usage_log =
                     SetLog(@, frame[th].model_id, <<>>)]
    /\ frame' = [frame EXCEPT ![th].pc = "clean_filter"]
    /\ UNCHANGED <<disable_quota_discovery, bret, recorded, discovery>>
    /\ UNCHANGED restVars

\* Lines 330-334, right-hand side: the list comprehension over the list.
CleanFilter(th) ==
    /\ frame[th].pc = "clean_filter"
    /\ frame' = [frame EXCEPT
                   ![th].kept =
                       KeepRecent(budget.token_usage_log[frame[th].model_id],
                                  frame[th].current_time),
                   ![th].pc = "clean_store"]
    /\ UNCHANGED <<budget, disable_quota_discovery, bret, recorded, discovery>>
    /\ UNCHANGED restVars

\* Line 331, left-hand side: token_usage_log[model_id] = the new list.
CleanStore(th) ==
    /\ frame[th].pc = "clean_store"
    /\ budget' = [budget EXCEPT !.token_usage_log[frame[th].model_id] =
                     frame[th].kept]
    /\ frame' = [frame EXCEPT ![th].kept = <<>>, ![th].pc = "sum"]
    /\ UNCHANGED <<disable_quota_discovery, bret, recorded, discovery>>
    /\ UNCHANGED restVars

\* Line 341: the sum over the list; get_current_usage returns it, to its
\* caller or into line 366 of record_usage or line 350 of can_use_tokens.
SumUsage(th) ==
    /\ frame[th].pc = "sum"
    /\ LET usage == SumTokens(budget.token_usage_log[frame[th].model_id])
       IN  IF frame[th].op = "can_use_tokens"
           THEN /\ frame' = [frame EXCEPT ![th].usage = usage,
                                          ![th].pc = "quota"]
                /\ UNCHANGED bret
           ELSE Return(th, [op |-> frame[th].op,
                            model_id |-> frame[th].model_id,
                            requested |-> frame[th].requested,
                            value |-> usage, allowed |-> FALSE])
    /\ UNCHANGED <<budget, disable_quota_discovery, recorded, discovery>>
    /\ UNCHANGED restVars

\* Lines 351-357: can_use_tokens gets the quota and answers.
CanUseTokensReturn(th, ans) ==
    /\ frame[th].pc = "quota"
    /\ IF IsQuotaCacheValid(budget, now)
       THEN UNCHANGED <<budget, discovery>>
       ELSE /\ budget' = Discovered(budget, ans, now)
            /\ discovery' = DiscoveryNoted(discovery, ans, now)
    /\ LET quota == Lookup(budget', frame[th].model_id)
           available == quota - frame[th].usage
       IN  Return(th, [op |-> "can_use_tokens",
                       model_id |-> frame[th].model_id,
                       requested |-> frame[th].requested,
                       value |-> available,
                       allowed |-> Fits(frame[th].requested, available)])
    /\ UNCHANGED <<disable_quota_discovery, recorded>>
    /\ UNCHANGED restVars

\* The clock moves on to a later instant, between calls.
BudgetTick(t) ==
    /\ t \in TimePoints
    /\ t > now
    /\ \A th \in Threads : frame[th].pc = "idle"
    /\ now' = t
    /\ UNCHANGED <<instance, global_rate_limiter, limiter, pc, self, start_time,
                   timeout, wake_at, ret, excess, handles, recording, waits>>
    /\ UNCHANGED ivkVars
    /\ UNCHANGED budVars
    /\ UNCHANGED auxVars

\* The process at time t, with no limiter made yet.
Imported(t) ==
    /\ now = t
    /\ instance = NoObject
    /\ global_rate_limiter = NoObject
    /\ limiter = [o \in ObjIds |-> Blank]
    /\ pc = [th \in Threads |-> "idle"]
    /\ self = [th \in Threads |-> NoObject]
    /\ start_time = [th \in Threads |-> 0]
    /\ timeout = [th \in Threads |-> NoTimeout]
    /\ wake_at = [th \in Threads |-> 0]
    /\ ret = [th \in Threads |-> "none"]
    /\ excess = [o \in ObjIds |-> 0]
    /\ handles = {}
    /\ waits = <<>>
    /\ recording = FALSE

\* The steps inside a call on the manager.
ManagerStep(th) ==
    \/ RecordCreate(th)
    \/ RecordAppend(th)
    \/ CleanCheck(th)
    \/ CleanCreate(th)
    \/ CleanFilter(th)
    \/ CleanStore(th)
    \/ SumUsage(th)

\* One thread asking for quotas, from before the manager exists.
QuotaInit ==
    /\ Imported(1)
    /\ NoInvocation
    /\ AuxAtRest
    /\ budget = NoManager
    /\ disable_quota_discovery \in BOOLEAN
    /\ frame = [th \in Threads |-> NoFrame]
    /\ bret = NoReturn
    /\ recorded = [id \in ModelIds |-> <<>>]
    /\ discovery = NoDiscovery

QuotaNext ==
    \/ \E ans \in Answers : GetManager(Caller, ans)
    \/ \E id \in ModelIds, ans \in Answers : GetQuotaForModel(Caller, id, ans)
    \/ \E t \in TimePoints : BudgetTick(t)

SpecQuota == QuotaInit /\ [][QuotaNext]_vars

(***************************************************************************)
(* main's start-up, lines 55-76: the manager is made and the manual        *)
(* override of the Claude quota is applied; quotas are asked for after it. *)
(***************************************************************************)
\* The values of BEDROCK_CLAUDE_TOKENS_PER_MINUTE explored.
ClaudeQuotas == {12000, 50000}

\* main.py lines 64-71: the override on the manager m.
Overridden(m, quota) ==
    LET c3 == <<"claude", "-3">>
        c4 == <<"claude", "-4">>
        fallback == Put(Put(Put(m.fallback_quotas, c3, quota), c4, quota),
                        <<"anthropic.", "claude">>, quota)
        cache3 == IF HasKey(m.quota_cache, c3)
                  THEN Put(m.quota_cache, c3, quota) ELSE m.quota_cache
        cache == IF HasKey(cache3, c4) THEN Put(cache3, c4, quota) ELSE cache3
    IN  [m EXCEPT !.fallback_quotas = fallback, !.quota_cache = cache]

\* main.py lines 56-72, with BEDROCK_CLAUDE_TOKENS_PER_MINUTE = quota > 0.
ManualOverride(quota) ==
    /\ budget.constructed
    /\ claude_quota = 0
    /\ budget' = Overridden(budget, quota)
    /\ claude_quota' = quota
    /\ UNCHANGED <<disable_quota_discovery, frame, bret, recorded, discovery>>
    /\ UNCHANGED <<limVars, ivkVars, calc, batch, batch_log, ctor, review>>

\* A quota is asked for after the start-up.
QuotaAfterOverride(id, ans) ==
    /\ claude_quota > 0
    /\ GetQuotaForModel(Caller, id, ans)

OverrideNext ==
    \/ \E ans \in Answers : GetManager(Caller, ans)
    \/ \E quota \in ClaudeQuotas : ManualOverride(quota)
    \/ \E id \in ModelIds, ans \in Answers : QuotaAfterOverride(id, ans)
    \/ \E t \in TimePoints : BudgetTick(t)

SpecOverride == QuotaInit /\ [][OverrideNext]_vars

\* The answers of the quota service while usage is recorded: the ones that
\* parse and hold quotas.
BudgetAnswers == {ans \in Answers : GetAllBedrockQuotas(ans).outcome = "ok"}

\* One thread recording and asking for usage, on a manager made at time 1.
BudgetInit ==
    /\ Imported(1)
    /\ NoInvocation
    /\ AuxAtRest
    /\ disable_quota_discovery = FALSE
    /\ \E ans \in BudgetAnswers :
          /\ budget = Discovered(FreshManager, ans, 1)
          /\ discovery = DiscoveryNoted(NoDiscovery, ans, 1)
    /\ frame = [th \in Threads |-> NoFrame]
    /\ bret = NoReturn
    /\ recorded = [id \in ModelIds |-> <<>>]

BudgetNext ==
    \/ \E id \in UsageIds, n \in Amounts : RecordCall(Caller, id, n)
    \/ \E id \in UsageIds : GetCurrentUsageCall(Caller, id)
    \/ \E id \in UsageIds, n \in Requests : CanUseTokensCall(Caller, id, n)
    \/ ManagerStep(Caller)
    \/ \E ans \in BudgetAnswers : CanUseTokensReturn(Caller, ans)
    \/ \E t \in TimePoints : BudgetTick(t)

SpecBudget == BudgetInit /\ [][BudgetNext]_vars

\* Two threads recording and reading usage of one model on a manager that
\* exists.
RaceId == <<"amazon.", "titan", "-text">>

UsageInit ==
    /\ Imported(1)
    /\ NoInvocation
    /\ AuxAtRest
    /\ BudgetAtRest(FreshManager)

UsageNext ==
    \/ \E th \in Threads, n \in Amounts : RecordCall(th, RaceId, n)
    \/ \E th \in Threads : GetCurrentUsageCall(th, RaceId)
    \/ \E th \in Threads : ManagerStep(th)
    \/ \E t \in TimePoints : BudgetTick(t)

SpecUsage == UsageInit /\ [][UsageNext]_vars

(***************************************************************************)
(* The TokenCalculator on its own: one text and one context window, and    *)
(* the calls made with them.                                               *)
(***************************************************************************)
calcRest == <<limVars, ivkVars, budVars, batch, batch_log, ctor, review,
             claude_quota>>

\* estimate_input_tokens(content) is called.
EstimateCall ==
    /\ calc.input_tokens = NotGiven
    /\ calc' = [calc EXCEPT !.input_tokens = EstimateInputTokens(calc.content)]
    /\ UNCHANGED calcRest

\* calculate_complexity_factor(content) is called.
FactorCall ==
    /\ calc.factor = 0
    /\ calc' = [calc EXCEPT !.factor = CalculateComplexityFactor(calc.content)]
    /\ UNCHANGED calcRest

\* calculate_dynamic_max_tokens(content, analysis_type, window) is called,
\* for the first or the second analysis type of the same content and window;
\* the result of the first call is kept next to that of the second.
SizeCall(analysis_type) ==
    /\ calc.previous = NoSized
    /\ \E v \in CalculateDynamicMaxTokens(calc.content, analysis_type,
                                          calc.window) :
          calc' = [calc EXCEPT
                      !.previous = calc.last,
                      !.last = [analysis_type |-> analysis_type, value |-> v]]
    /\ UNCHANGED calcRest

\* Nothing but the calculator is in use.
CalcAtRest ==
    /\ Imported(0)
    /\ NoInvocation
    /\ BudgetAtRest(NoManager)
    /\ batch = NoBatch
    /\ batch_log = <<>>
    /\ MainAtRest

FactorInit ==
    /\ CalcAtRest
    /\ \E text \in PaddedTexts : calc = [NoCalc EXCEPT !.content = text]

FactorNext == EstimateCall \/ FactorCall

SpecFactor == FactorInit /\ [][FactorNext]_vars

SizerInit ==
    /\ CalcAtRest
    /\ \E text \in Contents, w \in Windows :
          calc = [NoCalc EXCEPT !.content = text, !.window = w]

SizerNext == \E a \in AnalysisTypes \cup {OtherType} : SizeCall(a)

SpecSizer == SizerInit /\ [][SizerNext]_vars

(***************************************************************************)
(* The individual file analysis of main (main.py, lines 260-329) and       *)
(* AnalysisService.analyze_individual_file_diff (analysis_service.py,      *)
(* lines 318-371).  A string is a sequence of fragments; the empty string  *)
(* and None, which the code only tests for truth, are both <<>>.           *)
(***************************************************************************)

\* Largest number of changed files.
MaxFiles == 4

\* The decimal digits of an index.
IndexWord(i) ==
    CASE i = 0 -> "0" [] i = 1 -> "1" [] i = 2 -> "2" [] i = 3 -> "3"
      [] i = 4 -> "4" [] i = 5 -> "5" [] OTHER -> "6"

\* The file names explored for the file at an index: a usual one and one
\* that holds the words main looks for in an error message.
PlainName(i) == <<"src/f", IndexWord(i), ".py">>
ThrottleName(i) ==
    <<"docs/", "ThrottlingException", "-", "Tokens", IndexWord(i), ".md">>

\* One entry of changed_files, a dict: with or without "filename", with a
\* patch or an empty one.
FileInfos(i) ==
    {<<[key |-> "filename", value |-> name], [key |-> "patch", value |-> p]>> :
        name \in {PlainName(i), ThrottleName(i)},
        p \in {<<"+x = f(y);">>, <<>>}}
      \cup {<<[key |-> "patch", value |-> <<"+x = f(y);">>]>>}

\* The lists of n entries, the entry at index i from FileInfos(i).
RECURSIVE FileListsOf(_)
FileListsOf(n) ==
    IF n = 0 THEN {<<>>}
    ELSE {Append(fl, f) : fl \in FileListsOf(n - 1), f \in FileInfos(n - 1)}

\* changed_files: up to MaxFiles entries.
FileLists == UNION {FileListsOf(n) : n \in 0..MaxFiles}

\* HEAVY_MODEL_ID: os.getenv gives any string, the empty one included.
HeavyModelIds == {<<>>, <<"anthropic.", "claude", "-3", "-sonnet">>}

\* MAX_INDIVIDUAL_FILE_THROTTLING_FAILURES; "1" is the default.
Thresholds == {1, 2}

\* dict.get(key, default).
DictGet(d, k, default) == IF HasKey(d, k) THEN Get(d, k) ELSE default

\* str.replace(old, new), for a non-empty old.
RECURSIVE Replace(_, _, _)
Replace(str, old, new) ==
    IF Len(str) < Len(old) \/ old = <<>> THEN str
    ELSE IF SubSeq(str, 1, Len(old)) = old
    THEN new \o Replace(SubSeq(str, Len(old) + 1, Len(str)), old, new)
    ELSE <<Head(str)>> \o Replace(Tail(str), old, new)

\* The placeholder of config.py, line 62.
Placeholder == <<"[MODEL_ID_REDACTED]">>

\* The fragments made of the characters of [a-zA-Z0-9.-] only, and those
\* that end with "/" or "/" and more such characters.
IdWords ==
    {"0", "1", "2", "3", "4", "5", "6", ".py", ".md", "-", "Tokens",
     "ThrottlingException"}
SlashWords == {"src/f", "docs/"}

\* The length of the match of short_model_id_pattern (config.py, line 58)
\* that begins with the first fragment, 0 if there is none: name/name and a
\* colon.  Its second alternative, three names joined by dots, matches no
\* text used here.
RECURSIVE ColonAfterIdWords(_, _)
ColonAfterIdWords(str, k) ==
    IF k > Len(str) THEN 0
    ELSE IF str[k] = ":" THEN k
    ELSE IF str[k] \in IdWords THEN ColonAfterIdWords(str, k + 1)
    ELSE 0

ShortModelIdMatch(str) ==
    IF str # <<>> /\ str[1] \in SlashWords THEN ColonAfterIdWords(str, 2)
    ELSE 0

\* Line 66: re.sub(short_model_id_pattern, placeholder, message).
RECURSIVE SubShortModelId(_)
SubShortModelId(str) ==
    IF str = <<>> THEN <<>>
    ELSE IF ShortModelIdMatch(str) > 0
    THEN Placeholder
           \o SubShortModelId(SubSeq(str, ShortModelIdMatch(str) + 1, Len(str)))
    ELSE <<Head(str)>> \o SubShortModelId(Tail(str))

\* config.py, lines 37-75: what the short pattern matches and the
\* configured model id are replaced by the placeholder.
SanitizeModelArnInMessage(message, heavy_model_id) ==
    Replace(SubShortModelId(message), heavy_model_id, Placeholder)

\* What a call of invoke_model ends with: a text, an empty text, the
\* RuntimeError of line 399 of bedrock_handler.py after the retries were
\* used up by token throttling, or the RuntimeError of line 390.
InvokeOutcomes == {"text", "empty", "throttled", "denied"}

\* The text returned, or str(e) of the exception raised.
InvokeResult(how, model_id) ==
    CASE how = "text" -> [raised |-> FALSE, str |-> <<"Looks good.">>]
      [] how = "empty" -> [raised |-> FALSE, str |-> <<>>]
      [] how = "throttled" ->
           [raised |-> TRUE,
            str |-> <<"Bedrock API error for ">> \o model_id
                      \o <<" (", "ThrottlingException",
                           " - after 4 attempts): ", "Too", "many",
                           "tokens">>]
      [] OTHER ->
           [raised |-> TRUE,
            str |-> <<"Access denied for ">> \o model_id
                      \o <<". Check IAM permissions.">>]

\* analysis_service.py, lines 365-371: whatever invoke_model raised is
\* caught, and the sanitized message is returned.
AnalysisCaught(r, filename, heavy_model_id) ==
    IF r.raised
    THEN [raised |-> FALSE,
          str |-> SanitizeModelArnInMessage(
                      <<"Error analyzing file ">> \o filename
                          \o <<":", " ">> \o r.str, heavy_model_id)]
    ELSE r

\* analysis_service.py, lines 334-371: analyze_individual_file_diff, given
\* how its call of invoke_model ends.
AnalyzeIndividualFileDiff(file_patch, filename, heavy_model_id, how) ==
    IF file_patch = <<>> THEN [raised |-> FALSE, str |-> <<>>]
    ELSE IF filename = <<>>
    THEN [raised |-> TRUE,
          str |-> <<"Filename cannot be empty for individual file analysis.">>]
    ELSE IF heavy_model_id = <<>>
    THEN [raised |-> TRUE,
          str |-> <<"HEAVY_MODEL_ID is not configured for individual file analysis of '">>
                    \o filename \o <<"'.">>]
    ELSE AnalysisCaught(InvokeResult(how, heavy_model_id), filename,
                        heavy_model_id)

\* Lines 341-357: invoke_model is called.
Invokes(file_patch, filename, heavy_model_id) ==
    file_patch # <<>> /\ filename # <<>> /\ heavy_model_id # <<>>

\* main.py, line 310.
IsThrottlingMessage(str) ==
    /\ Contains(<<"ThrottlingException">>, str)
    /\ Contains(<<"tokens">>, Lower(str))

\* main.py, line 282, 294, 313, 322 and 325: the texts stored.
SkippedText ==
    <<"Analysis skipped due to rate limiting. The main review above covers the key changes.">>
NoContentText == <<"No specific analysis generated for this file.">>
RateLimitedText(str) == <<"Analysis failed due to rate limiting: ">> \o str
CouldNotText(filename, str) ==
    <<"Could not analyze ">> \o filename \o <<" due to an error: ">> \o str
NoChangesText ==
    <<"No changes to analyze (binary file, rename, or mode change only).">>

\* main.py, lines 300-307 and 316-319: the sleeps, in tenths of a second.
ProgressiveDelay(index) == 2 * Min(10 + index, 30)
ThrottlingDelay(count) == Min(100 + count * 50, 300)

\* main.py, line 281: the key of the placeholder of a file.
RemainingFilename(file_info, remaining_index) ==
    DictGet(file_info, "filename", <<"file_", IndexWord(remaining_index)>>)

\* main.py, lines 280-282: the placeholders of the files from index on.
RECURSIVE SkipRemaining(_, _, _)
SkipRemaining(analyses, changed_files, remaining_index) ==
    IF remaining_index >= Len(changed_files) THEN analyses
    ELSE SkipRemaining(
             Put(analyses,
                 RemainingFilename(changed_files[remaining_index + 1],
                                   remaining_index),
                 SkippedText),
             changed_files, remaining_index + 1)

\* The file of this turn of the loop (enumerate counts from 0).
FileInfo == batch.changed_files[batch.index + 1]
Filename == DictGet(FileInfo, "filename", <<>>)
FilePatch == DictGet(FileInfo, "patch", <<>>)

batchRest == <<limVars, ivkVars, budVars, calc, ctor, review, claude_quota>>

\* Lines 268 and 326-329: nothing to do, or disabled.
BatchSkipped ==
    /\ batch.pc = "start"
    /\ ~(batch.changed_files # <<>> /\ batch.enable_individual_analysis)
    /\ batch' = [batch EXCEPT !.pc = "done"]
    /\ UNCHANGED <<batch_log, batchRest>>

\* Lines 268-272: the loop is entered.
BatchStart ==
    /\ batch.pc = "start"
    /\ batch.changed_files # <<>> /\ batch.enable_individual_analysis
    /\ batch' = [batch EXCEPT !.pc = "loop"]
    /\ UNCHANGED <<batch_log, batchRest>>

\* The loop is over.
BatchEnd ==
    /\ batch.pc = "loop"
    /\ batch.index = Len(batch.changed_files)
    /\ batch' = [batch EXCEPT !.pc = "done"]
    /\ UNCHANGED <<batch_log, batchRest>>

InLoop == batch.pc = "loop" /\ batch.index < Len(batch.changed_files)

\* Line 277: the circuit breaker.
BreakerOpen(count, max) == count >= max

\* Lines 277-283: the breaker trips; every remaining file gets the
\* placeholder and the loop is left.
BreakerTrips ==
    /\ InLoop
    /\ BreakerOpen(batch.throttling_failure_count,
                   batch.max_throttling_failures)
    /\ batch' = [batch EXCEPT
           !.individual_file_analyses =
               SkipRemaining(batch.individual_file_analyses,
                             batch.changed_files, batch.index),
           !.pc = "done"]
    /\ UNCHANGED <<batch_log, batchRest>>

\* The sleep that follows the analysis of a file, unless it is the last.
SleepUnlessLast(delay) ==
    IF batch.index < Len(batch.changed_files) - 1 THEN batch.slept + delay
    ELSE batch.slept

\* Lines 285-322: the file is analyzed; how is the way the call of
\* invoke_model ends, if one is made.
AnalyzeFile(how) ==
    /\ InLoop
    /\ ~BreakerOpen(batch.throttling_failure_count,
                    batch.max_throttling_failures)
    /\ Filename # <<>> /\ FilePatch # <<>>
    /\ LET r == AnalyzeIndividualFileDiff(FilePatch, Filename,
                                          batch.heavy_model_id, how)
           invoked == Invokes(FilePatch, Filename, batch.heavy_model_id)
           throttling == r.raised /\ IsThrottlingMessage(r.str)
           count == IF ~r.raised THEN 0
                    ELSE IF throttling
                    THEN batch.throttling_failure_count + 1
                    ELSE batch.throttling_failure_count
           stored == IF ~r.raised
                     THEN (IF r.str # <<>> THEN r.str ELSE NoContentText)
                     ELSE IF throttling THEN RateLimitedText(r.str)
                     ELSE CouldNotText(Filename, r.str)
       IN  /\ invoked \/ how = "text"
           /\ batch' = [batch EXCEPT
                  !.individual_file_analyses = Put(@, Filename, stored),
                  !.throttling_failure_count = count,
                  !.slept = IF ~r.raised
                            THEN SleepUnlessLast(ProgressiveDelay(batch.index))
                            ELSE IF throttling
                            THEN SleepUnlessLast(ThrottlingDelay(count))
                            ELSE @,
                  !.index = @ + 1]
           /\ batch_log' = Append(batch_log,
                  [index |-> batch.index,
                   filename |-> Filename,
                   how |-> IF invoked THEN how ELSE "unconfigured",
                   before |-> batch.throttling_failure_count,
                   after |-> count,
                   stored |-> stored,
                   delay |-> batch'.slept - batch.slept])
    /\ UNCHANGED batchRest

\* Lines 323-325: a file without a patch.
NoPatch ==
    /\ InLoop
    /\ ~BreakerOpen(batch.throttling_failure_count,
                    batch.max_throttling_failures)
    /\ Filename # <<>> /\ FilePatch = <<>>
    /\ batch' = [batch EXCEPT
           !.individual_file_analyses = Put(@, Filename, NoChangesText),
           !.index = @ + 1]
    /\ UNCHANGED <<batch_log, batchRest>>

\* Lines 285 and 323: a file without a name is passed over.
NoFilename ==
    /\ InLoop
    /\ ~BreakerOpen(batch.throttling_failure_count,
                    batch.max_throttling_failures)
    /\ Filename = <<>>
    /\ batch' = [batch EXCEPT !.index = @ + 1]
    /\ UNCHANGED <<batch_log, batchRest>>

\* Lines 260-266: main reaches the individual file analysis.
BatchInit ==
    /\ Imported(0)
    /\ NoInvocation
    /\ BudgetAtRest(NoManager)
    /\ calc = NoCalc
    /\ batch_log = <<>>
    /\ MainAtRest
    /\ \E fl \in FileLists, en \in BOOLEAN, id \in HeavyModelIds,
          max \in Thresholds :
          batch = [NoBatch EXCEPT
                      !.pc = "start",
                      !.changed_files = fl,
                      !.enable_individual_analysis = en,
                      !.heavy_model_id = id,
                      !.max_throttling_failures = max]

BatchNext ==
    \/ BatchSkipped
    \/ BatchStart
    \/ BreakerTrips
    \/ \E how \in InvokeOutcomes : AnalyzeFile(how)
    \/ NoPatch
    \/ NoFilename
    \/ BatchEnd

SpecBatch == BatchInit /\ [][BatchNext]_vars

(***************************************************************************)
(* Construction by concurrent threads: __new__ runs under the class lock,  *)
(* __init__ runs line by line with no lock, and a thread has the reference *)
(* once its constructor call has returned.                                 *)
(***************************************************************************)
ctorRest == <<recording, ivkVars, budVars, calc, batch, batch_log, review,
              claude_quota>>

\* A thread calls BedrockRateLimiter(r, c).
CtorCall(th, r, c) ==
    /\ pc[th] = "idle"
    /\ pc' = [pc EXCEPT ![th] = "construct"]
    /\ ctor' = [ctor EXCEPT !.at[th] = "new",
                            !.requests_per_minute[th] = r,
                            !.burst_capacity[th] = c]
    /\ UNCHANGED <<now, instance, global_rate_limiter, limiter, self,
                   start_time, timeout, wake_at, ret, excess, handles, waits>>
    /\ UNCHANGED ctorRest

\* Lines 19-25: __new__.
CtorNew(th) ==
    /\ ctor.at[th] = "new"
    /\ LET o == NewObject(instance, limiter)
       IN  /\ instance' = o
           /\ limiter' = [limiter EXCEPT ![o].allocated = TRUE]
           /\ ctor' = [ctor EXCEPT !.at[th] = "test", !.obj[th] = o]
    /\ UNCHANGED <<now, global_rate_limiter, pc, self, start_time, timeout,
                   wake_at, ret, excess, handles, waits>>
    /\ UNCHANGED ctorRest

\* The constructor call of thread th returns the object.
CtorReturn(th) ==
    /\ pc' = [pc EXCEPT ![th] = "idle"]
    /\ self' = [self EXCEPT ![th] = ctor.obj[th]]

\* Lines 36-37: if hasattr(self, '_initialized'): return.
CtorTest(th) ==
    /\ ctor.at[th] = "test"
    /\ IF limiter[ctor.obj[th]].initialized
       THEN /\ CtorReturn(th)
            /\ ctor' = [ctor EXCEPT !.at[th] = "none"]
       ELSE /\ ctor' = [ctor EXCEPT !.at[th] = "requests_per_minute"]
            /\ UNCHANGED <<pc, self>>
    /\ UNCHANGED <<now, instance, global_rate_limiter, limiter, start_time,
                   timeout, wake_at, ret, excess, handles, waits>>
    /\ UNCHANGED ctorRest

\* Lines 39-44, one assignment: the object after it, and the line after it.
CtorAssigned(m, th) ==
    CASE ctor.at[th] = "requests_per_minute" ->
            [obj |-> [m EXCEPT !.requests_per_minute =
                                   ctor.requests_per_minute[th]],
             at |-> "burst_capacity"]
      [] ctor.at[th] = "burst_capacity" ->
            [obj |-> [m EXCEPT !.burst_capacity = ctor.burst_capacity[th]],
             at |-> "tokens"]
      [] ctor.at[th] = "tokens" ->
            [obj |-> [m EXCEPT !.tokens = ctor.burst_capacity[th]],
             at |-> "last_refill_time"]
      [] ctor.at[th] = "last_refill_time" ->
            [obj |-> [m EXCEPT !.last_refill_time = now], at |-> "_token_lock"]
      [] ctor.at[th] = "_token_lock" ->
            [obj |-> [m EXCEPT !.token_lock = "free"], at |-> "_initialized"]
      [] OTHER ->
            [obj |-> [m EXCEPT !.initialized = TRUE], at |-> "none"]

\* Lines 39-44: the next assignment of __init__; after the last one the
\* constructor call returns.
CtorAssign(th) ==
    /\ ctor.at[th] \in {"requests_per_minute", "burst_capacity", "tokens",
                        "last_refill_time", "_token_lock", "_initialized"}
    /\ LET o == ctor.obj[th]
           done == CtorAssigned(limiter[o], th)
       IN  /\ limiter' = [limiter EXCEPT ![o] = done.obj]
           /\ ctor' = [ctor EXCEPT
                  !.at[th] = done.at,
                  !.locks = IF ctor.at[th] = "_token_lock" THEN @ + 1 ELSE @]
           /\ IF done.at = "none" THEN CtorReturn(th)
              ELSE UNCHANGED <<pc, self>>
    /\ UNCHANGED <<now, instance, global_rate_limiter, start_time, timeout,
                   wake_at, ret, excess, handles, waits>>
    /\ UNCHANGED ctorRest

CtorInit ==
    /\ Imported(0)
    /\ NoInvocation
    /\ AuxAtRest
    /\ BudgetAtRest(NoManager)

\* The clock advances by one second.  No line of the constructors or of
\* acquire(timeout=0) blocks: at the resolution of the clock they take no
\* time, so the clock advances only between calls.
CtorTick ==
    /\ \A th \in Threads : pc[th] = "idle"
    /\ Tick

CtorNext ==
    \/ \E th \in Threads, c \in Caps : CtorCall(th, DefaultRate, c)
    \/ \E th \in Threads : CtorNew(th)
    \/ \E th \in Threads : CtorTest(th)
    \/ \E th \in Threads : CtorAssign(th)
    \/ \E th \in Threads : AcquireCall(th, 0)
    \/ \E th \in Threads : AcquireLock(th)
    \/ \E th \in Threads : Refill(th)
    \/ \E th \in Threads : TestTokens(th)
    \/ \E th \in Threads : TakeToken(th)
    \/ \E th \in Threads : CheckTimeout(th)
    \/ CtorTick

SpecConstruct == CtorInit /\ [][CtorNext]_vars

(***************************************************************************)
(* main: the last review of the bot, lines 140-171.  A review is a record  *)
(* of the fields main and get_last_bot_review read; commits are names.     *)
(***************************************************************************)
\* Largest number of reviews on the pull request.
MaxReviews == 2

Commits == {"oldcommitsha", "newcommitsha"}

\* The states of a review; a review the bot posts with the event COMMENT is
\* COMMENTED.
ReviewStates == {"PENDING", "COMMENTED", "CHANGES_REQUESTED", "DISMISSED"}

\* The submission times of reviews; None for a review not submitted.
SubmittedAts == {None, 1, 2}

\* A review whose body does not carry the signature of the bot.
OtherReview ==
    [signed |-> FALSE, state |-> "COMMENTED", commit_id |-> "oldcommitsha",
     submitted_at |-> 1]

\* The reviews get_pr_reviews can return.
Reviews ==
    {OtherReview} \cup
    [signed : {TRUE}, state : ReviewStates, commit_id : Commits,
     submitted_at : SubmittedAts]

RECURSIVE ReviewListsOf(_)
ReviewListsOf(n) ==
    IF n = 0 THEN {<<>>}
    ELSE LET shorter == ReviewListsOf(n - 1)
         IN  shorter \cup {Append(l, r) : l \in {q \in shorter : Len(q) = n - 1},
                                          r \in Reviews}

ReviewLists == ReviewListsOf(MaxReviews)

\* github_handler.py line 224: the reviews get_last_bot_review keeps, as
\* positions in the list.
BotReviews(pr_reviews) ==
    {i \in 1..Len(pr_reviews) :
        /\ pr_reviews[i].signed
        /\ pr_reviews[i].state # "PENDING"
        /\ pr_reviews[i].submitted_at # None}

\* github_handler.py lines 227-235: the first review of the stable sort by
\* submitted_at, latest first; None (0) without a review of the bot.
GetLastBotReview(pr_reviews) ==
    LET bot == BotReviews(pr_reviews)
    IN  IF bot = {} THEN None
        ELSE CHOOSE i \in bot :
                \A k \in bot :
                    \/ pr_reviews[k].submitted_at < pr_reviews[i].submitted_at
                    \/ /\ pr_reviews[k].submitted_at = pr_reviews[i].submitted_at
                       /\ i <= k

\* main.py line 150.
ShouldDismiss(r, head) ==
    r.commit_id # head /\ (r.state # "DISMISSED" \/ r.state # "COMMENTED")

reviewRest == <<limVars, ivkVars, budVars, calc, batch, batch_log, ctor,
                claude_quota>>

LastBotReview == review.all_reviews[review.last_bot_review]

\* Lines 145-146: get_pr_reviews and get_last_bot_review.
FindLastBotReview ==
    /\ review.pc = "start"
    /\ review' = [review EXCEPT
           !.last_bot_review = GetLastBotReview(review.all_reviews),
           !.pc = "test"]
    /\ UNCHANGED reviewRest

\* Lines 148-162: the review is passed to dismiss_review, which returns True,
\* returns False (the service answered 404) or raises RuntimeError.
DismissOld(how) ==
    /\ review.pc = "test"
    /\ review.last_bot_review # None
    /\ ShouldDismiss(LastBotReview, review.current_head_sha)
    /\ review' = [review EXCEPT
           !.dismissed = Append(@, LastBotReview),
           !.pc = CASE how = "True" -> "delete"
                    [] how = "False" -> "done"
                    [] OTHER -> "failed"]
    /\ UNCHANGED reviewRest

\* Lines 157-160: delete_review_line_comments on the dismissed review.
DeleteLineComments ==
    /\ review.pc = "delete"
    /\ review' = [review EXCEPT
           !.deleted = Append(@, LastBotReview), !.pc = "done"]
    /\ UNCHANGED reviewRest

\* Lines 163-169: the review is left as it is.
KeepOld ==
    /\ review.pc = "test"
    /\ review.last_bot_review # None
    /\ ~ShouldDismiss(LastBotReview, review.current_head_sha)
    /\ review' = [review EXCEPT !.pc = "done"]
    /\ UNCHANGED reviewRest

\* Lines 170-171: no review of the bot.
NoBotReview ==
    /\ review.pc = "test"
    /\ review.last_bot_review = None
    /\ review' = [review EXCEPT !.pc = "done"]
    /\ UNCHANGED reviewRest

ReviewInit ==
    /\ Imported(0)
    /\ NoInvocation
    /\ BudgetAtRest(NoManager)
    /\ calc = NoCalc
    /\ batch = NoBatch
    /\ batch_log = <<>>
    /\ ctor = NoCtor
    /\ claude_quota = 0
    /\ \E head \in Commits, reviews \in ReviewLists :
          review = [NoReview EXCEPT !.pc = "start",
                                    !.current_head_sha = head,
                                    !.all_reviews = reviews]

ReviewNext ==
    \/ FindLastBotReview
    \/ \E how \in {"True", "False", "raised"} : DismissOld(how)
    \/ DeleteLineComments
    \/ KeepOld
    \/ NoBotReview

SpecReview == ReviewInit /\ [][ReviewNext]_vars

(***************************************************************************)
(* Properties of the limiter.                                              *)
(***************************************************************************)
Initialized == {o \in ObjIds : limiter[o].initialized}

\* The thread is inside "with self._token_lock" of acquire.
InCriticalSection(th) == pc[th] \in {"refill", "test", "take", "deadline"}

\* C1: in every reachable state, 0 <= tokens <= burst_capacity for every
\* limiter that has been constructed.
C1_TokensInRange ==
    \A o \in Initialized :
        /\ 0 <= limiter[o].tokens
        /\ limiter[o].tokens <= limiter[o].burst_capacity

\* C1 witness: a token was taken, time passed, and a refill that would have
\* overfilled the bucket left it exactly full.
C1_Witness ==
    \E o \in Initialized :
        /\ limiter[o].burst_capacity >= 1
        /\ limiter[o].tokens = limiter[o].burst_capacity
        /\ (now - 1) * limiter[o].requests_per_minute >= 2 * SecondsPerMinute
        /\ limiter[o].last_refill_time = now
        /\ \E th \in Threads : ret[th] = "True"

\* C2: over every time window of W seconds the number of acquire calls that
\* returned True is at most burst_capacity + W * requests_per_minute / 60.
\* excess[o] is 60 times the largest value, over the windows [a, now], of
\* (True returns in the window) - (now - a) * requests_per_minute / 60: each
\* True return adds 60 to it and each second takes requests_per_minute off
\* it, never below 0.  The claim for all windows ending now is excess <=
\* 60 * burst_capacity.
C2_RateBound ==
    \A o \in Initialized :
        excess[o] <= SecondsPerMinute * limiter[o].burst_capacity

\* C2 witness: after the burst was spent and time has passed, a refilled token
\* has been granted and the bound is met with equality.
C2_Witness ==
    \E o \in Initialized :
        /\ limiter[o].burst_capacity >= 1
        /\ limiter[o].last_refill_time >= 1
        /\ limiter[o].tokens = 0
        /\ excess[o] = SecondsPerMinute * limiter[o].burst_capacity
        /\ \E th \in Threads : ret[th] = "True"

\* C4: the lines of acquire that read and write tokens and last_refill_time
\* run under the one lock of the limiter: at most one thread is inside them,
\* it is the holder of the lock, and the threads that found a token and have
\* not yet taken it never outnumber the tokens, so one token goes to at most
\* one caller.
C4_OneTokenOneCaller ==
    \A o \in Initialized :
        LET inside == {th \in Threads : self[th] = o /\ InCriticalSection(th)}
            takers == {th \in Threads : self[th] = o /\ pc[th] = "take"}
        IN  /\ Cardinality(inside) <= 1
            /\ \A th \in inside : limiter[o].token_lock = th
            /\ Cardinality(takers) <= limiter[o].tokens

\* C4 witness: one token is left, one caller has found it and is about to take
\* it while the other caller waits for the lock.
C4_Witness ==
    \E th \in Threads, other \in Threads :
        /\ th # other
        /\ self[th] = self[other]
        /\ limiter[self[th]].tokens = 1
        /\ pc[th] = "take"
        /\ pc[other] = "lock"

\* C5: an acquire with a timeout T returns False only when it finds no token
\* and at least T seconds have passed since it was called, and that return
\* leaves tokens as they were; when it finds no token and T seconds have
\* passed it returns False instead of sleeping, and a sleep never ends after
\* the deadline; a refill made by a call changes tokens only if it leaves a
\* token for that call to take, so a call that returns False changed none.
C5_TimeoutStep ==
    \A th \in Threads :
        LET o == self[th]
            elapsed == now - start_time[th]
            returnsFalse == ret[th] # "False" /\ ret'[th] = "False"
        IN  /\ returnsFalse =>
                /\ timeout[th] # NoTimeout
                /\ elapsed >= timeout[th]
                /\ limiter[o].tokens < 1
                /\ limiter'[o].tokens = limiter[o].tokens
                /\ pc'[th] = "idle"
            /\ (pc[th] = "deadline" /\ pc'[th] # "deadline"
                  /\ timeout[th] # NoTimeout /\ elapsed >= timeout[th])
                => returnsFalse
            /\ (pc'[th] = "sleep" /\ timeout'[th] # NoTimeout)
                => wake_at'[th] <= start_time'[th] + timeout'[th]
            /\ (pc[th] = "refill" /\ pc'[th] = "test"
                  /\ limiter'[o].tokens # limiter[o].tokens)
                => limiter'[o].tokens >= 1

C5_TimeoutReturnsFalse == [][C5_TimeoutStep]_vars

\* C5 witness: a call with a timeout of at least one second has slept, found
\* the bucket still empty at its deadline and returned False.
C5_Witness ==
    \E th \in Threads :
        /\ ret[th] = "False"
        /\ pc[th] = "idle"
        /\ now >= 1
        /\ limiter[self[th]].tokens = 0
        /\ limiter[self[th]].burst_capacity >= 1
        /\ limiter[self[th]].last_refill_time = 0

\* C6: after configure_global_rate_limiter(r, c) returns, the global limiter
\* has requests_per_minute = r, burst_capacity = c and tokens <= c.
C6_ConfigureStep ==
    \A th \in Threads, r \in Rates, c \in Caps :
        Configure(th, r, c) =>
            /\ limiter'[global_rate_limiter'].requests_per_minute = r
            /\ limiter'[global_rate_limiter'].burst_capacity = c
            /\ limiter'[global_rate_limiter'].tokens <= c

C6_ConfigureApplies == [][C6_ConfigureStep]_vars

\* C7: every get_global_rate_limiter() returns the same object, the one every
\* construction returns, so all callers draw on one bucket.
C7_OneSharedLimiter ==
    /\ Cardinality(handles) <= 1
    /\ handles \subseteq {instance}
    /\ global_rate_limiter \in {NoObject, instance}
    /\ \A th \in Threads : self[th] = instance

\* C7 witness: the global limiter was handed out, both threads hold it, and a
\* token one of them took is gone for the other.
C7_Witness ==
    /\ handles = {instance}
    /\ global_rate_limiter = instance
    /\ \A th \in Threads : self[th] = instance
    /\ limiter[instance].tokens < limiter[instance].burst_capacity
    /\ \E th \in Threads : ret[th] = "True"
    /\ \E th \in Threads : ret[th] = "none"

\* C3: on a fresh limiter with rate R and capacity C, the first C back-to-back
\* acquire calls return True with no wait, and every later one returns True
\* after a wait w of about 60/R seconds: 60/R <= w < 60/R + one polling slice.
C3_BurstThenPeriod ==
    LET m == limiter[instance]
    IN  /\ ret[Caller] # "False"
        /\ \A k \in 1..Len(waits) :
              IF k <= m.burst_capacity
              THEN waits[k] = 0
              ELSE /\ waits[k] * m.requests_per_minute >= SecondsPerMinute
                   /\ (waits[k] - MaxSlice) * m.requests_per_minute < SecondsPerMinute

\* C3 witness: R = 20, C = 5, 7 calls: calls 1-5 did not wait, calls 6 and 7
\* waited 3 seconds each.
C3_Witness ==
    /\ limiter[instance].requests_per_minute = 20
    /\ limiter[instance].burst_capacity = 5
    /\ waits = <<0, 0, 0, 0, 0, 3, 3>>

(***************************************************************************)
(* Properties of invoke_model.                                             *)
(***************************************************************************)

\* C8: when an attempt fails with AccessDeniedException,
\* ResourceNotFoundException or ValidationException the call raises at once,
\* whatever max_retries is: the failed remote call is the last one, no sleep
\* follows it (every earlier remote call was followed by one backoff, this
\* one by none), and a failure of the first attempt leaves one remote call,
\* zero retries and the clock untouched.
C8_FatalSurfacesImmediately ==
    last_code \in FatalErrors =>
        /\ outcome = "raised"
        /\ ipc = "done"
        /\ raised.kind = last_code
        /\ raised.exc = (IF last_code = "ValidationException"
                         THEN "ValueError" ELSE "RuntimeError")
        /\ Len(backoffs) = remote_calls - 1
        /\ attempt = remote_calls - 1
        /\ ~ ENABLED IvkNext
        /\ remote_calls = 1 => (attempt = 0 /\ backoffs = <<>> /\ now = 0)

\* C8 witness: with retries to spare, the first attempt failed with
\* ValidationException and the call raised ValueError after one remote call
\* and no sleep.
C8_Witness ==
    /\ max_retries >= 1
    /\ last_code = "ValidationException"
    /\ remote_calls = 1
    /\ backoffs = <<>>
    /\ outcome = "raised"
    /\ raised.exc = "ValueError"

\* The safety part of C9.
C9_AttemptsBounded ==
    /\ remote_calls <= max_retries + 1
    /\ attempt <= max_retries
    /\ Len(backoffs) = attempt
    /\ (ipc = "done" /\ all_retryable) =>
          /\ outcome = "raised"
          /\ remote_calls = max_retries + 1
          /\ raised.exc = "RuntimeError"
          /\ raised.kind = last_code
          /\ raised.kind \in retryable_errors
          /\ raised.attempts = max_retries + 1

\* C9: one call makes at most max_retries + 1 remote calls and ends; when
\* every attempt failed with a retryable error code it made exactly
\* max_retries + 1 remote calls and raised an error that carries the code of
\* the last failure and the attempt count max_retries + 1.
C9_BoundedAttempts == [] C9_AttemptsBounded /\ <> (ipc = "done")

\* C9 witness: max_retries = 2, three remote calls all failed with retryable
\* codes, and the call raised after the third.
C9_Witness ==
    /\ ipc = "done"
    /\ all_retryable
    /\ max_retries = 2
    /\ remote_calls = 3
    /\ Len(backoffs) = 2
    /\ raised.kind = "ServiceUnavailableException"
    /\ raised.attempts = 3

\* The first three attempts failed with token throttling and the fourth
\* remote call answered with a text.
ThreeTokenThrottlesThenSuccess ==
    /\ outcome = "returned"
    /\ remote_calls = 4
    /\ Len(backoffs) >= 3
    /\ \A i \in 1..3 : backoffs[i].tok

\* C10: when the first three attempts fail with token throttling and the
\* fourth succeeds, there were exactly three retries (three sleeps), their
\* durations do not decrease, and the text of the fourth response is what the
\* call returns (with surrounding blanks removed); and in every call, of two
\* consecutive token-throttled attempts the later backoff is never shorter.
C10_TokenBackoffMonotone ==
    /\ ThreeTokenThrottlesThenSuccess =>
          /\ attempt = 3
          /\ Len(backoffs) = 3
          /\ backoffs[1].wait <= backoffs[2].wait
          /\ backoffs[2].wait <= backoffs[3].wait
          /\ result = Strip(last_response)
    /\ \A i \in 1..(Len(backoffs) - 1) :
          (backoffs[i].tok /\ backoffs[i + 1].tok) =>
              backoffs[i].wait <= backoffs[i + 1].wait

\* C10 witness: three token throttles with growing backoffs, the third at
\* the 60 second cap, then a response whose text is returned stripped.
C10_Witness ==
    /\ ThreeTokenThrottlesThenSuccess
    /\ backoffs[1].wait < backoffs[2].wait
    /\ backoffs[2].wait < backoffs[3].wait
    /\ backoffs[3].wait = MaxTokenBackoff
    /\ last_response = <<" ", "a", "b", " ">>
    /\ result = <<"a", "b">>

\* acquire has returned True to the attempt and its remote call is still to
\* be made.
GrantInHand ==
    \/ ipc = "remote"
    \/ ipc = "acquiring" /\ ret[Caller] = "True"

\* C11: every remote call of invoke_model uses up one acquire that returned
\* True after the previous remote call: the True returns are the remote
\* calls made plus the one grant in hand, if any, a retry stands before its
\* remote call with a grant of its own, and an attempt whose acquire returned
\* False makes no remote call.
C11_OwnGrantPerRemoteCall ==
    /\ Len(waits) = remote_calls + (IF GrantInHand THEN 1 ELSE 0)
    /\ ipc = "remote" => (ret[Caller] = "True" /\ remote_calls = attempt)
    /\ ret[Caller] = "False" =>
          /\ ipc \in {"acquiring", "done"}
          /\ remote_calls = attempt
          /\ Len(waits) = remote_calls
    /\ ipc = "done" => Len(waits) = remote_calls

\* C11 witness: three attempts, three True returns of acquire and three
\* remote calls; the second attempt waited for a token of its own.
C11_Witness ==
    /\ outcome = "returned"
    /\ attempt = 2
    /\ remote_calls = 3
    /\ Len(waits) = 3
    /\ waits[1] = 0
    /\ waits[2] > 0

\* C12: when acquire returns False inside invoke_model the attempt is retried
\* after a backoff, and the call fails only once max_retries is used up, with
\* an error that carries the attempt count.
C12_AdmissionTimeoutRetried ==
    (ipc = "done" /\ ret[Caller] = "False") =>
        /\ attempt = max_retries
        /\ raised.attempts = max_retries + 1

\* C13: when the remote call answered but the body is not JSON or holds no
\* valid text, the call raises at once, whatever max_retries is: that remote
\* call is the last one and no sleep follows it.
C13_BadResponseSurfacesImmediately ==
    response_form \in {"not_json", "no_text"} =>
        /\ outcome = "raised"
        /\ ipc = "done"
        /\ raised.exc = "RuntimeError"
        /\ raised.kind = (IF response_form = "not_json"
                          THEN "JSONDecodeError" ELSE "NoValidText")
        /\ Len(backoffs) = remote_calls - 1
        /\ attempt = remote_calls - 1
        /\ ~ ENABLED IvkNext

\* C13 witness: with retries to spare, the first response held no text and
\* the call raised after one remote call and no sleep.
C13_Witness ==
    /\ max_retries >= 1
    /\ response_form = "no_text"
    /\ remote_calls = 1
    /\ backoffs = <<>>
    /\ now = 0
    /\ outcome = "raised"

(***************************************************************************)
(* Properties of the TokenBudgetManager.                                   *)
(***************************************************************************)

\* C14: a call of invoke_model that returns has recorded its tokens: the
\* usage log, empty before the call, holds one entry for some model.
C14_UsageRecorded ==
    outcome = "returned" =>
        \E id \in DOMAIN budget.token_usage_log :
            Len(budget.token_usage_log[id]) = 1

\* The usage list of a model id, empty when the log has no such key.
LogOf(id) ==
    IF id \in DOMAIN budget.token_usage_log
    THEN budget.token_usage_log[id] ELSE <<>>

\* The entries of a list with a timestamp in the 60 seconds up to t.
Trailing(entries, t) ==
    SelectSeq(entries,
              LAMBDA e : t - UsageWindow < e.timestamp /\ e.timestamp <= t)

\* C15: with record_usage and get_current_usage running concurrently on one
\* model id, no recorded entry younger than 60 s is missing from the log.
C15_NoRecentEntryLost ==
    \A id \in ModelIds : Trailing(LogOf(id), now) = Trailing(recorded[id], now)

\* A step in which thread th returns from the call op.
Returns(th, op) ==
    /\ frame[th].op = op
    /\ frame'[th].pc = "idle"
    /\ bret' # NoReturn

\* C16 as a property of one step.
C16_UsageStep ==
    \A th \in Threads :
        Returns(th, "get_current_usage") =>
            bret'.value =
                SumTokens(Trailing(recorded'[bret'.model_id], now'))

\* C16: get_current_usage(key) at time t returns the sum of the tokens of the
\* entries recorded for key with a timestamp in the 60 seconds up to t; usage
\* recorded at t0 and asked for at t0 + 61 s is 0.
C16_UsageIsTrailingSum == [][C16_UsageStep]_vars

\* C16 witness: 2 tokens were recorded at time 1 and nothing since, and
\* get_current_usage at time 62 returned 0.
C16_Witness ==
    /\ now = 62
    /\ bret.op = "get_current_usage"
    /\ bret.value = 0
    /\ recorded[bret.model_id] = <<[timestamp |-> 1, tokens |-> 2]>>

\* C17 as a property of one step.
C17_CanUseStep ==
    \A th \in Threads :
        Returns(th, "can_use_tokens") =>
            /\ bret'.value = Lookup(budget', bret'.model_id)
                              - SumTokens(Trailing(recorded'[bret'.model_id],
                                                   now'))
            /\ bret'.allowed = ~ (bret'.requested > bret'.value)

\* C17: can_use_tokens(model, n) returns available = quota(model) - current
\* usage(model), and allowed = False exactly when n > available.
C17_CanUseTokens == [][C17_CanUseStep]_vars

\* C17 witness: with 1 token used of a quota of 7000, a request for 7000 was
\* refused with 6999 available.
C17_Witness ==
    /\ bret.op = "can_use_tokens"
    /\ bret.requested = 7000
    /\ bret.value = 6999
    /\ ~ bret.allowed
    /\ SumTokens(Trailing(recorded[bret.model_id], now)) = 1

\* The value of the first entry of the table d whose pattern is within s;
\* 0 when there is none.
FirstPatternValue(d, s) ==
    IF \E i \in 1..Len(d) : Contains(d[i].key, s)
    THEN d[CHOOSE i \in 1..Len(d) :
               /\ Contains(d[i].key, s)
               /\ \A j \in 1..(i - 1) : ~ Contains(d[j].key, s)].value
    ELSE 0

\* The quota the claim names for the string s.
QuotaByPrecedence(m, s) ==
    IF FirstPatternValue(m.quota_cache, s) # 0
    THEN FirstPatternValue(m.quota_cache, s)
    ELSE IF FirstPatternValue(m.fallback_quotas, s) # 0
    THEN FirstPatternValue(m.fallback_quotas, s)
    ELSE Get(m.fallback_quotas, <<"default">>)

\* C18 as a property of one step, the patterns sought in the lower-cased id.
C18_QuotaStep ==
    \A th \in Threads :
        (frame[th].pc = "idle" /\ bret'.op = "get_quota_for_model") =>
            bret'.value = QuotaByPrecedence(budget', Lower(bret'.model_id))

\* C18, amended: get_quota_for_model returns the value of the first pattern
\* of the discovered cache that is a substring of the lower-cased model id;
\* otherwise the value of the first such pattern of the fallback table;
\* otherwise the default.
C18_QuotaPrecedence == [][C18_QuotaStep]_vars

\* C18 as a property of one step, the patterns sought in the model id as
\* given.
C18_VerbatimStep ==
    \A th \in Threads :
        (frame[th].pc = "idle" /\ bret'.op = "get_quota_for_model") =>
            bret'.value = QuotaByPrecedence(budget', bret'.model_id)

\* C18 as stated: get_quota_for_model returns the value of the first pattern
\* of the discovered cache that is a substring of the model id; otherwise the
\* value of the first such pattern of the fallback table; otherwise the
\* default.
C18_QuotaPrecedenceVerbatim == [][C18_VerbatimStep]_vars

\* C18 witness: the cache lists anthropic.claude before claude-3, the
\* fallback table the other way round, and a claude-3 model whose id is
\* written with capitals got the cache's first match.
C18_Witness ==
    /\ bret.op = "get_quota_for_model"
    /\ bret.model_id = <<"us.", "Anthropic.", "Claude", "-3", "-haiku">>
    /\ Len(budget.quota_cache) = 3
    /\ budget.quota_cache[1].key = <<"anthropic.", "claude">>
    /\ bret.value = budget.quota_cache[1].value
    /\ bret.value # Get(budget.fallback_quotas, <<"claude", "-3">>)

\* C19 as a property of one step.
C19_FailedDiscoveryStep ==
    (discovery' # discovery
     /\ discovery'.outcome \in {"no_client", "raised", "parse_failed"}
     /\ budget.constructed) =>
        /\ budget'.quota_cache = budget.quota_cache
        /\ budget'.fallback_quotas = budget.fallback_quotas
        /\ \A id \in ModelIds : Lookup(budget', id) = Lookup(budget, id)

\* C19: a quota discovery that fails (no client, the service raises, or the
\* parse of its answer fails part-way) leaves the discovered cache and the
\* fallback table as they were, and every model's quota with them.
C19_FailedDiscoveryKeepsState == [][C19_FailedDiscoveryStep]_vars

\* C20: two round trips to the quota service are never less than the cache
\* TTL of 300 s apart, also when discovery fails or finds no quotas.
C20_OneRoundTripPerTtl ==
    discovery.prev_trip # None =>
        discovery.last_trip - discovery.prev_trip >= QuotaCacheTtl

(***************************************************************************)
(* Further properties of the limiter and of invoke_model.                  *)
(***************************************************************************)

\* C27 as a property of one step.
C27_StatusStep ==
    \A th \in Threads :
        GetStatus(th) =>
            LET before == limiter[self[th]]
                after == limiter'[self[th]]
            IN  /\ after.tokens = before.tokens
                /\ after.last_refill_time = before.last_refill_time
                /\ after.requests_per_minute = before.requests_per_minute
                /\ after.burst_capacity = before.burst_capacity

\* C27: get_status() is a read-only snapshot: it leaves tokens,
\* last_refill_time, requests_per_minute and burst_capacity of the limiter
\* as they were.
C27_StatusReadOnly == [][C27_StatusStep]_vars

\* C28: invoke_model with an empty model id or an empty prompt raises
\* ValueError and has done nothing else: no acquire on the limiter (its
\* tokens and refill time are those of its construction, the clock has not
\* moved), no remote call and no calculation of max_tokens.
C28_EmptyArgumentsRejected ==
    ((args.model_id = <<>> \/ args.prompt = <<>>) /\ ipc # "enter") =>
        /\ outcome = "raised"
        /\ raised.exc = "ValueError"
        /\ raised.kind \in {"EmptyModelId", "EmptyPrompt"}
        /\ remote_calls = 0
        /\ sent = <<>>
        /\ sizer_calls = 0
        /\ max_tokens = args.max_tokens
        /\ handles = {}
        /\ pc[Caller] = "idle"
        /\ ret[Caller] = "none"
        /\ now = 0
        /\ \A o \in Initialized :
              /\ limiter[o].tokens = limiter[o].burst_capacity
              /\ limiter[o].last_refill_time = 0

\* C28 witness: a call with a prompt and an empty model id has raised.
C28_Witness ==
    /\ args.model_id = <<>>
    /\ args.prompt # <<>>
    /\ outcome = "raised"
    /\ raised = InvalidArgument("EmptyModelId")

\* C29: max_tokens is fixed before the retry loop: once the arguments are
\* accepted, calculate_dynamic_max_tokens has run once when the caller gave
\* no max_tokens and not at all when the caller gave one, and every request
\* body sent, first try and retries alike, carries the same max_tokens (the
\* caller's, when given).
C29_SizedOncePerCall ==
    (ArgumentsValid(args) /\ ipc \notin {"none", "enter"}) =>
        /\ sizer_calls = (IF args.max_tokens = NotGiven THEN 1 ELSE 0)
        /\ args.max_tokens # NotGiven => max_tokens = args.max_tokens
        /\ Len(sent) = remote_calls
        /\ \A i \in 1..Len(sent) : sent[i] = max_tokens /\ sent[i] = sent[1]

\* C29 witness: the caller gave no max_tokens and the call is in its third
\* attempt, after two requests with the one calculated value.
C29_Witness ==
    /\ args.max_tokens = NotGiven
    /\ sizer_calls = 1
    /\ attempt = 2
    /\ Len(sent) = 2
    /\ sent[1] = sent[2]
    /\ sent[1] \in CalculateDynamicMaxTokens(
                      args.prompt, args.analysis_type,
                      GetModelContextLimits(args.model_id))

\* C30 as a property of one step.
C30_RefillStep ==
    \A th \in Threads :
        Refill(th) =>
            LET before == limiter[self[th]]
                after == limiter'[self[th]]
            IN  /\ SecondsPerMinute * after.tokens =
                       Min(SecondsPerMinute * before.burst_capacity,
                           SecondsPerMinute * before.tokens
                             + (now - before.last_refill_time)
                                 * before.requests_per_minute)
                /\ after.last_refill_time = now

\* C30: each refill at time now sets tokens to min(capacity, tokens +
\* (now - lastRefill) * ratePerMinute / 60) and lastRefill to now, so that no
\* elapsed time is lost.
C30_RefillLosesNoTime == [][C30_RefillStep]_vars

(***************************************************************************)
(* Properties of the token calculator.                                     *)
(***************************************************************************)
\* A call of calculate_dynamic_max_tokens has returned.
Sized(r) == r.analysis_type # "none"

\* C23: for every content and every known analysis type the value returned
\* by calculate_dynamic_max_tokens lies between MIN_TOKENS and MAX_TOKENS of
\* the type, with or without a context window.
C23_WithinClassBounds ==
    calc.last.analysis_type \in AnalysisTypes =>
        /\ MIN_TOKENS[calc.last.analysis_type] <= calc.last.value
        /\ calc.last.value <= MAX_TOKENS[calc.last.analysis_type]

\* C23 witness: with a window given, a summary of a long and complex content
\* was calculated above MAX_TOKENS and returned as exactly MAX_TOKENS.
C23_Witness ==
    /\ calc.last.analysis_type = "summary"
    /\ calc.window # None
    /\ EstimateInputTokens(calc.content) >= 500
    /\ \E v \in CalculatedTokens(BASE_TOKENS["summary"],
                                 MIN_TOKENS["summary"],
                                 EstimateInputTokens(calc.content),
                                 CalculateComplexityFactor(calc.content)) :
          v > MAX_TOKENS["summary"]
    /\ calc.last.value = MAX_TOKENS["summary"]

\* C24: whenever a context window is given, the value returned never exceeds
\* window - estimate_input_tokens(content) - 100.
C24_WithinWindow ==
    (Sized(calc.last) /\ calc.window # None) =>
        calc.last.value
            <= calc.window - EstimateInputTokens(calc.content) - 100

\* C25: for the same content and window, an analysis type with a higher
\* MAX_TOKENS never gets a smaller value than one with a lower MAX_TOKENS.
C25_HigherMaxNotSmaller ==
    (/\ calc.last.analysis_type \in AnalysisTypes
     /\ calc.previous.analysis_type \in AnalysisTypes
     /\ MAX_TOKENS[calc.last.analysis_type]
            > MAX_TOKENS[calc.previous.analysis_type])
        => calc.last.value >= calc.previous.value

\* One of the four indicators of complexity fires for the content.
IndicatorFires(content) ==
    \/ DenseCode(content)
    \/ ManyFiles(content)
    \/ LargeChange(content)
    \/ ManyLanguages(content)

\* C26: calculate_complexity_factor returns a value between 1.0 and 2.0; it
\* is 1.0 when none of the four indicators fires and above 1.0 when one does.
C26_FactorInRange ==
    calc.factor # 0 =>
        /\ FactorUnit <= calc.factor
        /\ calc.factor <= 2 * FactorUnit
        /\ ~IndicatorFires(calc.content) => calc.factor = FactorUnit
        /\ IndicatorFires(calc.content) => calc.factor > FactorUnit

\* C26 witness: a content with twelve file markers, whose factor of 2.1 was
\* returned as 2.0.
C26_Witness ==
    /\ calc.factor = 2 * FactorUnit
    /\ Total(calc.content, "files") >= 12

(***************************************************************************)
(* Properties of the individual file analysis.                             *)
(***************************************************************************)
\* The call of invoke_model made for a file returned.
Succeeded(entry) == entry.how \in {"text", "empty"}

\* The number of consecutive throttling failures after the sub-calls of a
\* log: a sub-call whose retries were used up by throttling counts one more,
\* a sub-call that succeeded starts the count again.
RECURSIVE ConsecutiveFailures(_)
ConsecutiveFailures(log) ==
    IF log = <<>> THEN 0
    ELSE LET entry == log[Len(log)]
             earlier == ConsecutiveFailures(SubSeq(log, 1, Len(log) - 1))
         IN  IF Succeeded(entry) THEN 0
             ELSE IF entry.how = "throttled" THEN earlier + 1
             ELSE earlier

\* C21: once the consecutive throttling failures of the batch reach the
\* threshold no further file is analyzed, every remaining file has the
\* placeholder when the batch is over, and the results stored before are
\* still there.
C21_BreakerSkipsRemaining ==
    /\ \A j \in 1..Len(batch_log) :
          ConsecutiveFailures(SubSeq(batch_log, 1, j - 1))
              < batch.max_throttling_failures
    /\ (/\ batch.pc = "done"
        /\ batch_log # <<>>
        /\ ConsecutiveFailures(batch_log) >= batch.max_throttling_failures)
          => \A i \in 0..(Len(batch.changed_files) - 1) :
                i > batch_log[Len(batch_log)].index =>
                    DictGet(batch.individual_file_analyses,
                            RemainingFilename(batch.changed_files[i + 1], i),
                            <<>>) = SkippedText
    /\ \A j \in 1..Len(batch_log) :
          DictGet(batch.individual_file_analyses, batch_log[j].filename,
                  <<>>) = batch_log[j].stored

\* C22: throttling_failure_count starts at 0, is 0 after every sub-call
\* that succeeded, grows only by 1 and only when the retries of the sub-call
\* were used up by throttling, and is left alone by every other failure.
C22_CounterFollowsThrottling ==
    /\ batch.pc = "start" => batch.throttling_failure_count = 0
    /\ \A j \in 1..Len(batch_log) :
          LET entry == batch_log[j]
          IN  /\ Succeeded(entry) => entry.after = 0
              /\ entry.after > entry.before =>
                    /\ entry.after = entry.before + 1
                    /\ entry.how = "throttled"
              /\ (~Succeeded(entry) /\ entry.how # "throttled") =>
                    entry.after = entry.before

(***************************************************************************)
(* Properties of the waits of acquire.                                     *)
(***************************************************************************)
\* Thread th is inside acquire(timeout=T) for a number T.
InTimedAcquire(th) == pc[th] # "idle" /\ timeout[th] # NoTimeout

\* No sleep is longer than the polling slice or the rest of the timeout, and
\* a call with a timeout is never inside acquire later than the timeout plus
\* one slice after it was made.
C31_WithinTimeout ==
    \A th \in Threads :
        /\ pc[th] = "sleep" => wake_at[th] - now <= MaxSlice
        /\ InTimedAcquire(th) =>
              /\ now - start_time[th] <= timeout[th] + MaxSlice
              /\ pc[th] = "sleep" =>
                    wake_at[th] <= start_time[th] + timeout[th]

\* C31: acquire with a timeout T returns, True or False, no later than T
\* plus one polling slice after it was called, whatever the other callers
\* do, and none of its sleeps exceeds one second or the remaining timeout.
C31_TimedAcquireReturns ==
    /\ []C31_WithinTimeout
    /\ \A th \in Threads : (InTimedAcquire(th) ~> (pc[th] = "idle"))

\* C31 witness: a call with a timeout of a second stands at its deadline
\* after a full sleep, the bucket empty, the other thread having taken the
\* last token.
C31_Witness ==
    \E th \in Threads, other \in Threads :
        /\ other # th
        /\ pc[th] = "deadline"
        /\ timeout[th] >= 1
        /\ now - start_time[th] = timeout[th]
        /\ limiter[self[th]].tokens = 0
        /\ limiter[self[th]].burst_capacity >= 1
        /\ ret[other] = "True"

\* Thread th is inside acquire(timeout=None).
InUntimedAcquire(th) == pc[th] # "idle" /\ timeout[th] = NoTimeout

\* acquire of thread th has returned True.
ReturnedTrue(th) == pc[th] = "idle" /\ ret[th] = "True"

C32_BackoffFormula ==
    \A i \in 1..Len(backoffs) :
        LET a == i - 1
            base == initial_backoff_seconds
            wait == backoffs[i].wait
        IN  IF backoffs[i].tok
            THEN /\ wait <= MaxTokenBackoff
                 /\ \E j \in 0..(TokenJitterMax * base) :
                       wait = Min(base * Pow(TokenFactor, a) + j,
                                  MaxTokenBackoff)
            ELSE /\ base * Pow(StandardFactor, a) <= wait
                 /\ wait <= base * Pow(StandardFactor, a)
                                + StandardJitterMax * base

\* C32 witness: one call slept a standard backoff with the largest jitter
\* and then a token backoff that the cap cut down to 60 seconds.
C32_Witness ==
    /\ Len(backoffs) >= 3
    /\ ~backoffs[1].tok
    /\ backoffs[1].wait = 2 * initial_backoff_seconds
    /\ backoffs[3].tok
    /\ initial_backoff_seconds * Pow(TokenFactor, 2) > MaxTokenBackoff
    /\ backoffs[3].wait = MaxTokenBackoff

\* 3 * baseDelay, in tenths of a second.
LargestProgressiveDelay == 60

\* C33: between every two consecutive sub-calls of the batch, whether the
\* earlier one succeeded or failed, the delay slept is
\* 2.0 * min(1 + 0.1 * index, 3.0) seconds for the index of the earlier one,
\* so it does not decrease with the index and never exceeds 6 seconds.
C33_ProgressiveDelayBetween ==
    \A j \in 1..(Len(batch_log) - 1) :
        /\ batch_log[j].delay = 2 * Min(10 + batch_log[j].index, 30)
        /\ batch_log[j].delay <= LargestProgressiveDelay
        /\ \A k \in 1..(j - 1) : batch_log[k].delay <= batch_log[j].delay

\* C38: main passes the last bot review to dismiss_review only when its
\* commit differs from the current head commit and its state is neither
\* DISMISSED nor COMMENTED.
C38_DismissedOnlyWhenDismissable ==
    \A i \in 1..Len(review.dismissed) :
        /\ review.dismissed[i].commit_id # review.current_head_sha
        /\ review.dismissed[i].state \notin {"DISMISSED", "COMMENTED"}

\* The Claude model ids among the ids asked about.
ClaudeIds == {id \in ModelIds : Contains(<<"claude">>, Lower(id))}

\* C34: once the manual Claude quota is applied, get_quota_for_model returns
\* it for every Claude model id, whatever was or is discovered.
C34_OverrideReturned ==
    (/\ claude_quota > 0
     /\ bret.op = "get_quota_for_model"
     /\ bret.model_id \in ClaudeIds) => bret.value = claude_quota

\* A list without its last element.
Front(entries) == SubSeq(entries, 1, Len(entries) - 1)

\* C35 as a property of one step of a caller inside record_usage.
C35_RecordStep ==
    \A th \in Threads :
        LET m == frame[th].model_id
            others == (DOMAIN budget.token_usage_log) \ {m}
        IN  /\ frame[th].op = "record_usage" =>
                  /\ budget'.quota_cache = budget.quota_cache
                  /\ budget'.quota_cache_time = budget.quota_cache_time
                  /\ budget'.fallback_quotas = budget.fallback_quotas
                  /\ (DOMAIN budget'.token_usage_log) \ {m} = others
                  /\ \A id \in others :
                        budget'.token_usage_log[id] = budget.token_usage_log[id]
            /\ Returns(th, "record_usage") =>
                  /\ bret'.model_id = m
                  /\ recorded'[m] # <<>>
                  /\ recorded'[m][Len(recorded'[m])] =
                        [timestamp |-> now', tokens |-> bret'.requested]
                  /\ bret'.value =
                        SumTokens(Trailing(Front(recorded'[m]), now'))
                            + bret'.requested

\* C35: record_usage(m, n) makes the usage of m at that instant exactly n
\* more than it was, and leaves the usage log of every other model id and
\* both quota tables unchanged.
C35_RecordAddsExactly == [][C35_RecordStep]_vars

\* C35 witness: a second amount was recorded for a model within the minute
\* while quotas are cached, and the usage after it is the sum of the two.
C35_Witness ==
    /\ bret.op = "record_usage"
    /\ Len(recorded[bret.model_id]) = 2
    /\ Len(Trailing(recorded[bret.model_id], now)) = 2
    /\ bret.value = recorded[bret.model_id][1].tokens + bret.requested
    /\ budget.quota_cache # <<>>

\* C37 as a property of one step: once a thread has a token, a step of a
\* constructor leaves tokens and last_refill_time as they are and makes no
\* new lock.
C37_ConstructorStep ==
    ((\E th \in Threads : ret[th] = "True") /\ ctor' # ctor) =>
        /\ \A o \in ObjIds :
              /\ limiter'[o].tokens = limiter[o].tokens
              /\ limiter'[o].last_refill_time = limiter[o].last_refill_time
        /\ ctor'.locks = ctor.locks

\* C37: the bucket is initialised once even when threads construct the
\* limiter concurrently: after a thread has acquired a token, no construction
\* resets tokens, replaces _token_lock or changes last_refill_time.
C37_InitialisedOnce == [][C37_ConstructorStep]_vars

====
